---- MODULE Spec2Model ----
(***************************************************************************)
(* check-projects: the CLI run (cmd/check-projects/main.go): the optional  *)
(* fetch pass (fetchProjects), the status-classification batch (run) and   *)
(* the classifier they call (internal/git/status.go, Repository.GetStatus).*)
(* The TUI's scanProjectsCmd runs the same batch (same goroutine body,     *)
(* same semaphore of 10, same WaitGroup).                                  *)
(*                                                                         *)
(* git is an external program: a repository is modelled by what its        *)
(* invocations return (exit status, stdout lines, stderr text).            *)
(***************************************************************************)
EXTENDS Integers, Sequences, FiniteSets, TLC

\* ---------------------------------------------------------------- bounds
MaxProjects == 3          \* Spec: at most this many discovered projects
LoadProjects == 11        \* SpecLoad: number of projects (more than the ceiling)
MaxFetchConcurrency == 2  \* largest configured fetch_concurrency
MaxLines == 3             \* SpecClassify: at most this many lines of git status output
MaxBranches == 2          \* SpecLag: at most this many lines of git branch output
MaxSymlinks == 4          \* symbolic links followed in one path resolution
MaxEntries == 2           \* SpecScan: at most this many entries in the scan root
MaxCategories == 2        \* SpecScan: at most this many configured categories
MaxPattern == 3           \* SpecMatch: ignore patterns of at most this many characters
MaxPath == 4              \* SpecMatch: project paths of at most this many characters
MaxCalls == 2             \* SpecCalls: GetStatus calls made on one repository
MaxResults == 2          \* results handed to handleNoUpstream
MaxScroll == 2            \* SpecShow: largest details scroll offset
MaxFetches == 2           \* SpecTui: fetchProjectCmd commands in flight at once
MaxScans == 2             \* SpecTui: scanProjectsCmd commands started (Init and r)

\* ------------------------------------------------------ program constants
StatusConcurrency == 10   \* sem := make(chan struct{}, 10)

StatusSync == "sync"
StatusUnsync == "unsync"
StatusError == "error"
StatusIgnored == "ignored"
StatusNoUpstream == "no_upstream"
StatusBrokenSymlink == "broken_symlink"

\* ------------------------------------------------------------ text model
\* Lines git status can print; the text of an invocation is a set of lines.
StatusLines ==
  { "On branch main",
    "Changes to be committed:",
    "renamed: a -> b",
    "new file: c",
    "modified: d",
    "deleted: e",
    "Untracked files:",
    "Your branch is ahead of 'origin/main' by 1 commit.",
    "Your branch is behind 'origin/main' by 2 commits, and can be fast-forwarded.",
    "Your branch and 'origin/main' have diverged,",
    "nothing to commit, working tree clean" }

\* Diagnostics the upstream probe (git rev-list @{u}..HEAD --count) can print.
UpstreamDiagnostics ==
  { "",
    "fatal: no upstream configured for branch 'main'",
    "fatal: upstream branch 'refs/heads/x' not stored as a remote-tracking branch",
    "fatal: no such branch: 'main'",
    "fatal: not a git repository" }

\* The substrings the code searches for, and the lines each occurs in.
Occurrences(phrase) ==
  CASE phrase = "Changes to be committed:" -> {"Changes to be committed:"}
    [] phrase = "renamed:" -> {"renamed: a -> b"}
    [] phrase = "new file:" -> {"new file: c"}
    [] phrase = "modified:" -> {"modified: d"}
    [] phrase = "deleted:" -> {"deleted: e"}
    [] phrase = "Untracked files:" -> {"Untracked files:"}
    [] phrase = "is ahead of" -> {"Your branch is ahead of 'origin/main' by 1 commit."}
    [] phrase = "is behind" -> {"Your branch is behind 'origin/main' by 2 commits, and can be fast-forwarded."}
    [] phrase = "diverged" -> {"Your branch and 'origin/main' have diverged,"}
    [] phrase = "nothing to commit, working tree clean" -> {"nothing to commit, working tree clean"}
    [] phrase = "no upstream configured" -> {"fatal: no upstream configured for branch 'main'"}
    [] phrase = "upstream branch" -> {"fatal: upstream branch 'refs/heads/x' not stored as a remote-tracking branch"}
    [] phrase = "no such branch" -> {"fatal: no such branch: 'main'"}
    [] OTHER -> {}

\* strings.Contains(text, phrase) for a text given as its set of lines
Contains(text, phrase) == (text \cap Occurrences(phrase)) # {}


\* --------------------------------------------------------- git.Repository
\* What the git invocations made on one repository return.
Repository(upstreamOk, upstreamStderr, statusOk, statusStderr, output, fetchOk) ==
  [ upstreamOk |-> upstreamOk,          \* git rev-list @{u}..HEAD --count exits 0
    upstreamStderr |-> upstreamStderr,  \* its stderr (a set of lines)
    statusOk |-> statusOk,              \* git status exits 0
    statusStderr |-> statusStderr,      \* its stderr (a string)
    output |-> output,                  \* its stdout (a set of lines)
    fetchOk |-> fetchOk,                \* git fetch exits 0
    branchesOk |-> TRUE,                \* git branch --format=... exits 0
    branches |-> << >> ]                \* its stdout, split into lines

\* One line of git branch and what the probes made on that branch return
Branch(name, trackingOk, behindOk, behindCount, aheadOk, aheadCount) ==
  [ name |-> name,                      \* the line, trimmed
    trackingOk |-> trackingOk,          \* git rev-parse --abbrev-ref name@{u} exits 0
    behindOk |-> behindOk,              \* git rev-list --count name..name@{u} exits 0
    behindCount |-> behindCount,        \* its stdout, trimmed
    aheadOk |-> aheadOk,                \* git rev-list --count name@{u}..name exits 0
    aheadCount |-> aheadCount ]         \* its stdout, trimmed

\* the repository r with the given outcome of git branch
WithBranches(r, branchesOk, branches) ==
  [r EXCEPT !.branchesOk = branchesOk, !.branches = branches]

\* git.BranchTracking
BranchTracking(branch, message) == [ Branch |-> branch, Message |-> message ]

NilRepository == [ nil |-> TRUE ]       \* proj.Repository == nil
NilStatus == [ nil |-> TRUE ]           \* the zero *git.Status of a fresh slot
NilError == "nil"

\* git.Status; a literal that names no BehindBranches has the nil list
Status(type, message, symbol) ==
  [ Type |-> type, Message |-> message, Symbol |-> symbol, BehindBranches |-> << >> ]

\* Repository.Fetch: nil on success, an error otherwise
Fetch(r) == IF r.fetchOk THEN NilError ELSE "fetch failed"

\* a probe whose every failure counts as a missing upstream
MissingUpstreamAnyFailure(r) == ~r.upstreamOk

\* if err := upstreamCmd.Run(); err != nil { ... strings.Contains(stderrStr, ...) }
MissingUpstream(r) ==
  /\ ~r.upstreamOk
  /\ \/ Contains(r.upstreamStderr, "no upstream configured")
     \/ Contains(r.upstreamStderr, "upstream branch")
     \/ Contains(r.upstreamStderr, "no such branch")

\* a cascade that tests the untracked section before the staged block
ClassifyOutputUntrackedFirst(output) ==
  IF Contains(output, "Untracked files:") THEN Status(StatusUnsync, "Untracked files", "+")
  ELSE IF Contains(output, "Changes to be committed:") THEN
    IF Contains(output, "renamed:") THEN Status(StatusUnsync, "Staged renames", "* R")
    ELSE IF Contains(output, "new file:") THEN Status(StatusUnsync, "Staged files", "* +")
    ELSE Status(StatusUnsync, "Staged changes", "*s")
  ELSE IF Contains(output, "modified:") THEN Status(StatusUnsync, "Modified files", "* M")
  ELSE IF Contains(output, "deleted:") THEN Status(StatusUnsync, "Deleted files", "* D")
  ELSE IF Contains(output, "is ahead of") THEN Status(StatusUnsync, "Ahead of remote", "^")
  ELSE IF Contains(output, "is behind") THEN Status(StatusUnsync, "Behind remote", "v")
  ELSE IF Contains(output, "diverged") THEN Status(StatusUnsync, "Diverged from remote", "^^")
  ELSE IF Contains(output, "nothing to commit, working tree clean") THEN Status(StatusSync, "Clean", "ok")
  ELSE Status(StatusUnsync, "Unknown state", "*")

\* The cascade over the output of a successful git status
ClassifyOutput(output) ==
  IF Contains(output, "Changes to be committed:") THEN
    IF Contains(output, "renamed:") THEN Status(StatusUnsync, "Staged renames", "* R")
    ELSE IF Contains(output, "new file:") THEN Status(StatusUnsync, "Staged files", "* +")
    ELSE Status(StatusUnsync, "Staged changes", "*s")
  ELSE IF Contains(output, "modified:") THEN Status(StatusUnsync, "Modified files", "* M")
  ELSE IF Contains(output, "deleted:") THEN Status(StatusUnsync, "Deleted files", "* D")
  ELSE IF Contains(output, "Untracked files:") THEN Status(StatusUnsync, "Untracked files", "+")
  ELSE IF Contains(output, "is ahead of") THEN Status(StatusUnsync, "Ahead of remote", "^")
  ELSE IF Contains(output, "is behind") THEN Status(StatusUnsync, "Behind remote", "v")
  ELSE IF Contains(output, "diverged") THEN Status(StatusUnsync, "Diverged from remote", "^^")
  ELSE IF Contains(output, "nothing to commit, working tree clean") THEN Status(StatusSync, "Clean", "ok")
  ELSE Status(StatusUnsync, "Unknown state", "*")

\* a loop that stops at the first branch whose probe fails
RECURSIVE BranchesLoopStopAtFailure(_, _, _)
BranchesLoopStopAtFailure(branches, k, behindBranches) ==
  IF k > Len(branches) THEN behindBranches
  ELSE LET b == branches[k]
       IN IF b.name = "" THEN BranchesLoopStopAtFailure(branches, k + 1, behindBranches)
          ELSE IF ~b.trackingOk THEN behindBranches
          ELSE IF ~b.behindOk THEN behindBranches
          ELSE IF b.behindCount # "0" /\ b.behindCount # "" THEN
            LET aheadCount == IF b.aheadOk THEN b.aheadCount ELSE "0"
                message == IF aheadCount # "0"
                             THEN "behind by " \o b.behindCount \o ", ahead by "
                                    \o aheadCount \o " commit(s)"
                             ELSE "behind by " \o b.behindCount \o " commit(s)"
            IN BranchesLoopStopAtFailure(branches, k + 1,
                 Append(behindBranches, BranchTracking(b.name, message)))
          ELSE BranchesLoopStopAtFailure(branches, k + 1, behindBranches)

\* for _, branch := range branches { ... }: the list after the branches from
\* the k-th on have been probed
RECURSIVE BranchesLoop(_, _, _)
BranchesLoop(branches, k, behindBranches) ==
  IF k > Len(branches) THEN behindBranches
  ELSE LET b == branches[k]
       IN IF b.name = "" THEN BranchesLoop(branches, k + 1, behindBranches)
          ELSE IF ~b.trackingOk THEN BranchesLoop(branches, k + 1, behindBranches)
          ELSE IF ~b.behindOk THEN BranchesLoop(branches, k + 1, behindBranches)
          ELSE IF b.behindCount # "0" /\ b.behindCount # "" THEN
            LET aheadCount == IF b.aheadOk THEN b.aheadCount ELSE "0"
                message == IF aheadCount # "0"
                             THEN "behind by " \o b.behindCount \o ", ahead by "
                                    \o aheadCount \o " commit(s)"
                             ELSE "behind by " \o b.behindCount \o " commit(s)"
            IN BranchesLoop(branches, k + 1,
                 Append(behindBranches, BranchTracking(b.name, message)))
          ELSE BranchesLoop(branches, k + 1, behindBranches)

\* Repository.GetBranchesTrackingStatus: the branches behind their remote, or
\* an error when the branches cannot be listed
GetBranchesTrackingStatus(r) ==
  IF ~r.branchesOk THEN [ behindBranches |-> << >>, err |-> "failed to get branches" ]
  ELSE [ behindBranches |-> BranchesLoop(r.branches, 1, << >>), err |-> NilError ]

\* the list GetStatus attaches: empty when the branches could not be listed
BehindBranchesOf(r) ==
  LET tracked == GetBranchesTrackingStatus(r)
  IN IF tracked.err # NilError THEN << >> ELSE tracked.behindBranches

\* a GetStatus that hands a failed git status to its caller as an error
GetStatusPropagatesError(r) ==
  LET behindBranches == BehindBranchesOf(r)
  IN IF MissingUpstream(r) THEN
       [ status |-> [Status(StatusNoUpstream, "No upstream configured", "! No upstream")
                       EXCEPT !.BehindBranches = behindBranches],
         err |-> NilError,
         ran |-> <<"branch", "rev-list @{u}..HEAD">> ]
     ELSE IF ~r.statusOk THEN
       [ status |-> NilStatus,
         err |-> "git status failed",
         ran |-> <<"branch", "rev-list @{u}..HEAD", "status">> ]
     ELSE
       [ status |-> [ClassifyOutput(r.output) EXCEPT !.BehindBranches = behindBranches],
         err |-> NilError,
         ran |-> <<"branch", "rev-list @{u}..HEAD", "status">> ]

\* a GetStatus that attaches the lag list only to an inspected working tree
GetStatusLagWhenInspected(r) ==
  LET behindBranches == BehindBranchesOf(r)
  IN IF MissingUpstream(r) THEN
       [ status |-> Status(StatusNoUpstream, "No upstream configured", "! No upstream"),
         err |-> NilError,
         ran |-> <<"branch", "rev-list @{u}..HEAD">> ]
     ELSE IF ~r.statusOk THEN
       [ status |-> Status(StatusError, "Error: " \o r.statusStderr, "x"),
         err |-> NilError,
         ran |-> <<"branch", "rev-list @{u}..HEAD", "status">> ]
     ELSE
       [ status |-> [ClassifyOutput(r.output) EXCEPT !.BehindBranches = behindBranches],
         err |-> NilError,
         ran |-> <<"branch", "rev-list @{u}..HEAD", "status">> ]

\* Repository.GetStatus: the status (Type, Message, Symbol, BehindBranches; the
\* symbols are written in ASCII), the error, and the git commands it ran: the
\* branch listing, the upstream probe and, unless a missing upstream was
\* reported, git status.
GetStatus(r) ==
  LET behindBranches == BehindBranchesOf(r)
  IN IF MissingUpstream(r) THEN
       [ status |-> [Status(StatusNoUpstream, "No upstream configured", "! No upstream")
                       EXCEPT !.BehindBranches = behindBranches],
         err |-> NilError,
         ran |-> <<"branch", "rev-list @{u}..HEAD">> ]
     ELSE IF ~r.statusOk THEN
       [ status |-> [Status(StatusError, "Error: " \o r.statusStderr, "x")
                       EXCEPT !.BehindBranches = behindBranches],
         err |-> NilError,
         ran |-> <<"branch", "rev-list @{u}..HEAD", "status">> ]
     ELSE
       [ status |-> [ClassifyOutput(r.output) EXCEPT !.BehindBranches = behindBranches],
         err |-> NilError,
         ran |-> <<"branch", "rev-list @{u}..HEAD", "status">> ]


\* -------------------------------------------------------- scanner.Project
Project(name, path, category, repository, isSymlink, symlinkTarget) ==
  [ Name |-> name, Path |-> path, Category |-> category, Repository |-> repository,
    IsSymlink |-> isSymlink, SymlinkTarget |-> symlinkTarget ]

NoProject == [ none |-> TRUE ]          \* the argument of a goroutine not yet started

\* reporter.ProjectResult
ProjectResult(name, status, category, isSymlink, symlinkTarget) ==
  [ Name |-> name, Status |-> status, Category |-> category,
    IsSymlink |-> isSymlink, SymlinkTarget |-> symlinkTarget ]

ZeroResult == ProjectResult("", NilStatus, "", FALSE, "")

\* tui.ProjectWithStatus
ProjectWithStatus(project, status) == [ Project |-> project, Status |-> status ]

ZeroProject == Project("", "", "", NilRepository, FALSE, "")


\* ------------------------------------------------------ strings and paths
\* In the scanner a string is the sequence of its characters.
\* The characters of the names used here, in byte order
Alphabet ==
  << "*", ".", "/", "1", "2", "3", "4", "5", "6", "7", "8", "D", "S", "_",
     "a", "b", "c", "d", "e", "f", "g", "i", "k", "l", "m", "n", "o", "r", "s",
     "t", "u", "v", "w", "x", "~" >>

Rank ==
  [ c \in { Alphabet[i] : i \in 1..Len(Alphabet) } |->
      CHOOSE i \in 1..Len(Alphabet) : Alphabet[i] = c ]

\* a < b as strings (the order os.ReadDir sorts names in)
RECURSIVE Less(_, _)
Less(a, b) ==
  IF b = << >> THEN FALSE
  ELSE IF a = << >> THEN TRUE
  ELSE IF Head(a) = Head(b) THEN Less(Tail(a), Tail(b))
  ELSE Rank[Head(a)] < Rank[Head(b)]

\* strings.HasPrefix, strings.HasSuffix, strings.TrimSuffix
HasPrefix(str, prefix) ==
  Len(str) >= Len(prefix) /\ SubSeq(str, 1, Len(prefix)) = prefix
HasSuffix(str, suffix) ==
  Len(str) >= Len(suffix) /\ SubSeq(str, Len(str) - Len(suffix) + 1, Len(str)) = suffix
TrimSuffix(str, suffix) ==
  IF HasSuffix(str, suffix) THEN SubSeq(str, 1, Len(str) - Len(suffix)) ELSE str

\* strings.Contains(str, "*")
ContainsStar(str) == \E i \in 1..Len(str) : str[i] = "*"

\* the index of the last separator of a path, 0 when it has none
RECURSIVE LastSlashFrom(_, _)
LastSlashFrom(path, i) ==
  IF i = 0 THEN 0
  ELSE IF path[i] = "/" THEN i
  ELSE LastSlashFrom(path, i - 1)

LastSlash(path) == LastSlashFrom(path, Len(path))

\* filepath.Clean on paths without "." and ".." elements: one separator
\* between elements, none at the end
RECURSIVE Squeeze(_)
Squeeze(path) ==
  IF Len(path) <= 1 THEN path
  ELSE IF path[1] = "/" /\ path[2] = "/" THEN Squeeze(Tail(path))
  ELSE << Head(path) >> \o Squeeze(Tail(path))

Clean(path) ==
  LET q == IF \E i \in 1..(Len(path) - 1) : path[i] = "/" /\ path[i + 1] = "/"
             THEN Squeeze(path) ELSE path
  IN IF q = << >> THEN << "." >>
     ELSE IF Len(q) > 1 /\ q[Len(q)] = "/" THEN SubSeq(q, 1, Len(q) - 1)
     ELSE q

\* filepath.Join of two elements
Join(dir, name) ==
  IF dir = << >> /\ name = << >> THEN << >>
  ELSE IF dir = << >> THEN Clean(name)
  ELSE IF name = << >> THEN Clean(dir)
  ELSE Clean(dir \o << "/" >> \o name)

\* filepath.Base
Base(path) ==
  IF path = << >> THEN << "." >>
  ELSE LET q == Clean(path)
       IN IF q = << "/" >> THEN q ELSE SubSeq(q, LastSlash(q) + 1, Len(q))

\* filepath.IsAbs
IsAbs(path) == path # << >> /\ path[1] = "/"

\* filepath.Rel(basePath, fullPath) for a fullPath at or below basePath; the
\* scanner falls back to the entry name on an error
Rel(basePath, fullPath, name) ==
  LET b == Clean(basePath)
      f == Clean(fullPath)
      prefix == IF b = << "/" >> THEN b ELSE b \o << "/" >>
  IN IF f = b THEN << "." >>
     ELSE IF HasPrefix(f, prefix) THEN SubSeq(f, Len(prefix) + 1, Len(f))
     ELSE name

\* filepath.Match for patterns of literals, '*' and '?' (no classes, no
\* escapes): '*' and '?' match no separator
RECURSIVE MatchFrom(_, _, _, _)
MatchFrom(pattern, i, name, j) ==
  IF i > Len(pattern) THEN j > Len(name)
  ELSE IF pattern[i] = "*" THEN
    \/ MatchFrom(pattern, i + 1, name, j)
    \/ j <= Len(name) /\ name[j] # "/" /\ MatchFrom(pattern, i, name, j + 1)
  ELSE IF pattern[i] = "?" THEN
    j <= Len(name) /\ name[j] # "/" /\ MatchFrom(pattern, i + 1, name, j + 1)
  ELSE j <= Len(name) /\ name[j] = pattern[i] /\ MatchFrom(pattern, i + 1, name, j + 1)

Match(pattern, name) == MatchFrom(pattern, 1, name, 1)

\* the elements of a path
RECURSIVE Split(_)
Split(path) ==
  IF path = << >> THEN << >>
  ELSE IF Head(path) = "/" THEN Split(Tail(path))
  ELSE LET n == IF \E i \in 1..Len(path) : path[i] = "/"
                  THEN (CHOOSE i \in 1..Len(path) :
                          path[i] = "/" /\ \A j \in 1..(i - 1) : path[j] # "/") - 1
                  ELSE Len(path)
       IN << SubSeq(path, 1, n) >> \o Split(SubSeq(path, n + 1, Len(path)))

\* ExpandPath: a leading ~ is the home directory
HomeDir == << "/", "w" >>
ExpandPath(path) ==
  IF HasPrefix(path, << "~" >>) THEN Join(HomeDir, Tail(path)) ELSE path

\* ------------------------------------------------------------ file system
\* A file system maps the path of each file to what it is: a directory
\* (readable or not; a repository root carries what git returns in it), a
\* regular file or a symbolic link with its target.
DirNode(readable) ==
  [ kind |-> "dir", readable |-> readable, search |-> TRUE, target |-> << >>,
    git |-> NilRepository ]
FileNode ==
  [ kind |-> "file", readable |-> TRUE, search |-> TRUE, target |-> << >>,
    git |-> NilRepository ]
LinkNode(target) ==
  [ kind |-> "link", readable |-> TRUE, search |-> TRUE, target |-> target,
    git |-> NilRepository ]
\* a directory without read and search permission: it cannot be listed and no
\* path through it resolves
LockedDir == [DirNode(FALSE) EXCEPT !.search = FALSE]

DotGit == << ".", "g", "i", "t" >>

\* a repository root at path: a directory with a .git directory
RepoAt(path, git) ==
  (path :> [DirNode(TRUE) EXCEPT !.git = git]) @@ (Join(path, DotGit) :> DirNode(TRUE))

ENOENT == [ ok |-> FALSE, path |-> << >>, errno |-> "ENOENT" ]
ENOTDIR == [ ok |-> FALSE, path |-> << >>, errno |-> "ENOTDIR" ]
ELOOP == [ ok |-> FALSE, path |-> << >>, errno |-> "ELOOP" ]
EACCES == [ ok |-> FALSE, path |-> << >>, errno |-> "EACCES" ]

\* Path resolution from the directory cur through the elements segs: every
\* symbolic link on the way is followed, the one named by the last element
\* only if followLast; at most hops links are followed.
RECURSIVE Walk(_, _, _, _, _)
Walk(fs, cur, segs, followLast, hops) ==
  IF segs = << >> THEN [ ok |-> TRUE, path |-> cur, errno |-> "" ]
  ELSE LET next == IF cur = << "/" >> THEN cur \o Head(segs)
                   ELSE cur \o << "/" >> \o Head(segs)
           rest == Tail(segs)
       IN IF next \notin DOMAIN fs THEN ENOENT
          ELSE IF fs[next].kind = "link" /\ (rest # << >> \/ followLast) THEN
            IF hops = 0 THEN ELOOP
            ELSE Walk(fs, IF IsAbs(fs[next].target) THEN << "/" >> ELSE cur,
                      Split(fs[next].target) \o rest, followLast, hops - 1)
          ELSE IF rest # << >> /\ fs[next].kind # "dir" THEN ENOTDIR
          ELSE IF rest # << >> /\ ~fs[next].search THEN EACCES
          ELSE Walk(fs, next, rest, followLast, hops)

\* a resolution that follows twice as many links before it gives up
StatTwiceAsFar(fs, path) == Walk(fs, << "/" >>, Split(path), TRUE, MaxSymlinks + MaxSymlinks)

\* os.Stat and os.Lstat of an absolute path
Stat(fs, path) == Walk(fs, << "/" >>, Split(path), TRUE, MaxSymlinks)
Lstat(fs, path) == Walk(fs, << "/" >>, Split(path), FALSE, MaxSymlinks)

\* the parent directory of a file
Parent(path) ==
  IF LastSlash(path) <= 1 THEN << "/" >> ELSE SubSeq(path, 1, LastSlash(path) - 1)

RECURSIVE SortNames(_)
SortNames(names) ==
  IF names = {} THEN << >>
  ELSE LET first == CHOOSE x \in names : \A y \in names : x = y \/ Less(x, y)
       IN << first >> \o SortNames(names \ {first})

\* os.ReadDir: the entries of a directory sorted by name, each with its own
\* type (a link is not followed) and, for a link, what os.Readlink returns on
\* it; or an error
ReadDir(fs, path) ==
  LET st == Stat(fs, path)
  IN IF ~st.ok THEN [ ok |-> FALSE, entries |-> << >> ]
     ELSE IF fs[st.path].kind # "dir" \/ ~fs[st.path].readable
       THEN [ ok |-> FALSE, entries |-> << >> ]
     ELSE LET files == { g \in DOMAIN fs : g # << "/" >> /\ Parent(g) = st.path }
              names == SortNames({ Base(f) : f \in files })
              FileOf(name) == CHOOSE f \in files : Base(f) = name
          IN [ ok |-> TRUE,
               entries |-> [ k \in 1..Len(names) |->
                               [ name |-> names[k],
                                 kind |-> fs[FileOf(names[k])].kind,
                                 target |-> fs[FileOf(names[k])].target ] ] ]

\* git.IsGitRepository: os.Stat(path/.git) succeeds and is a directory
IsGitRepository(fs, path) ==
  LET st == Stat(fs, Join(path, DotGit))
  IN st.ok /\ fs[st.path].kind = "dir"

\* git.NewRepository(path, name): the handle stands for what git returns when
\* it runs in that directory
NewRepository(fs, path) == fs[Stat(fs, path).path].git

\* ---------------------------------------------------------------- scanner
\* config.Category
Category(name, root, projectPaths, ignore) ==
  [ Name |-> name, Root |-> root, Projects |-> projectPaths, Ignore |-> ignore ]

\* Scanner.shouldIgnore
CommonIgnored ==
  { << "n", "o", "d", "e", "_", "m", "o", "d", "u", "l", "e", "s" >>,
    << ".", "D", "S", "_", "S", "t", "o", "r", "e" >> }
\* a check that knows node_modules only
ShouldIgnoreNodeModulesOnly(name) ==
  name = << "n", "o", "d", "e", "_", "m", "o", "d", "u", "l", "e", "s" >>

ShouldIgnore(name) == name \in CommonIgnored

\* a pattern that ignores every path it is the beginning of
PatternIgnoresByPrefix(pattern, projectPath) ==
  \/ HasPrefix(projectPath, pattern)
  \/ Base(projectPath) = pattern
  \/ /\ HasSuffix(pattern, << "/", "*" >>)
     /\ LET prefix == TrimSuffix(pattern, << "/", "*" >>)
        IN HasPrefix(projectPath, prefix \o << "/" >>) \/ projectPath = prefix
  \/ /\ ContainsStar(pattern)
     /\ Match(pattern, projectPath) \/ Match(pattern, Base(projectPath))

\* one pattern of Scanner.isIgnored
PatternIgnores(pattern, projectPath) ==
  \/ projectPath = pattern
  \/ Base(projectPath) = pattern
  \/ /\ HasSuffix(pattern, << "/", "*" >>)
     /\ LET prefix == TrimSuffix(pattern, << "/", "*" >>)
        IN HasPrefix(projectPath, prefix \o << "/" >>) \/ projectPath = prefix
  \/ /\ ContainsStar(pattern)
     /\ Match(pattern, projectPath) \/ Match(pattern, Base(projectPath))

\* Scanner.isIgnored
IsIgnored(projectPath, ignored) ==
  \E k \in 1..Len(ignored) : PatternIgnores(ignored[k], projectPath)

\* What a scan has produced so far: the descriptors appended, the directories
\* os.ReadDir has listed and those on which it returned an error
NoneScanned == [ projects |-> << >>, listed |-> << >>, failed |-> << >> ]
Found(acc, project) == [acc EXCEPT !.projects = Append(@, project)]

\* Scanner.scanRecursiveHelper: the listing of currentPath, then the loop over
\* its entries (ScanEntries), whose body is ScanEntry
RECURSIVE ScanRecursiveHelper(_, _, _, _, _, _)
RECURSIVE ScanEntries(_, _, _, _, _, _, _, _)
RECURSIVE ScanEntry(_, _, _, _, _, _, _)

\* a helper that gives up the whole scan when a listing fails
ScanRecursiveHelperAbortsOnError(fs, basePath, currentPath, categoryName, ignored, acc) ==
  LET dir == ReadDir(fs, currentPath)
  IN IF ~dir.ok THEN [NoneScanned EXCEPT !.failed = Append(acc.failed, currentPath)]
     ELSE ScanEntries(fs, basePath, currentPath, categoryName, ignored, dir.entries, 1,
                      [acc EXCEPT !.listed = Append(@, currentPath)])

ScanRecursiveHelper(fs, basePath, currentPath, categoryName, ignored, acc) ==
  LET dir == ReadDir(fs, currentPath)
  IN IF ~dir.ok THEN [acc EXCEPT !.failed = Append(@, currentPath)]
     ELSE ScanEntries(fs, basePath, currentPath, categoryName, ignored, dir.entries, 1,
                      [acc EXCEPT !.listed = Append(@, currentPath)])

ScanEntries(fs, basePath, currentPath, categoryName, ignored, entries, k, acc) ==
  IF k > Len(entries) THEN acc
  ELSE ScanEntries(fs, basePath, currentPath, categoryName, ignored, entries, k + 1,
                   ScanEntry(fs, basePath, currentPath, categoryName, ignored,
                             entries[k], acc))

ScanEntry(fs, basePath, currentPath, categoryName, ignored, entry, acc) ==
  LET name == entry.name
      fullPath == Join(currentPath, name)
      isDir == entry.kind = "dir"
      isSymlink == entry.kind = "link"
      target == IF IsAbs(entry.target) THEN entry.target
                ELSE Join(currentPath, entry.target)
      relPath == Rel(basePath, fullPath, name)
  IN IF ~isDir /\ isSymlink THEN
       IF ShouldIgnore(name) THEN acc
       ELSE IF IsGitRepository(fs, fullPath) THEN
         IF ~IsIgnored(relPath, ignored)
           THEN Found(acc, Project(relPath, fullPath, categoryName,
                                   NewRepository(fs, fullPath), TRUE, target))
           ELSE acc
       ELSE LET info == Lstat(fs, target)
            IN IF ~info.ok THEN
                 IF ~IsIgnored(relPath, ignored)
                   THEN Found(acc, Project(relPath, fullPath, categoryName,
                                           NilRepository, TRUE, target))
                   ELSE acc
               ELSE IF fs[info.path].kind # "dir" THEN acc
               ELSE ScanRecursiveHelper(fs, basePath, fullPath, categoryName, ignored, acc)
     ELSE IF ~isDir THEN acc
     ELSE IF ShouldIgnore(name) THEN acc
     ELSE IF IsGitRepository(fs, fullPath) THEN
       IF ~IsIgnored(relPath, ignored)
         THEN Found(acc, Project(relPath, fullPath, categoryName,
                                 NewRepository(fs, fullPath), FALSE, << >>))
         ELSE acc
     ELSE ScanRecursiveHelper(fs, basePath, fullPath, categoryName, ignored, acc)

\* the body of the loop of scanRecursiveHelper for one entry, up to the point
\* where it appends a descriptor, calls itself on fullPath, or goes on to the
\* next entry
EntryStep(fs, basePath, currentPath, categoryName, ignored, entry) ==
  LET name == entry.name
      fullPath == Join(currentPath, name)
      isDir == entry.kind = "dir"
      isSymlink == entry.kind = "link"
      target == IF IsAbs(entry.target) THEN entry.target
                ELSE Join(currentPath, entry.target)
      relPath == Rel(basePath, fullPath, name)
      skip == [ do |-> "continue", project |-> NoProject, path |-> fullPath ]
      append(project) == [ do |-> "append", project |-> project, path |-> fullPath ]
      recurse == [ do |-> "recurse", project |-> NoProject, path |-> fullPath ]
  IN IF ~isDir /\ isSymlink THEN
       IF ShouldIgnore(name) THEN skip
       ELSE IF IsGitRepository(fs, fullPath) THEN
         IF ~IsIgnored(relPath, ignored)
           THEN append(Project(relPath, fullPath, categoryName,
                               NewRepository(fs, fullPath), TRUE, target))
           ELSE skip
       ELSE LET info == Lstat(fs, target)
            IN IF ~info.ok THEN
                 IF ~IsIgnored(relPath, ignored)
                   THEN append(Project(relPath, fullPath, categoryName,
                                       NilRepository, TRUE, target))
                   ELSE skip
               ELSE IF fs[info.path].kind # "dir" THEN skip
               ELSE recurse
     ELSE IF ~isDir THEN skip
     ELSE IF ShouldIgnore(name) THEN skip
     ELSE IF IsGitRepository(fs, fullPath) THEN
       IF ~IsIgnored(relPath, ignored)
         THEN append(Project(relPath, fullPath, categoryName,
                             NewRepository(fs, fullPath), FALSE, << >>))
         ELSE skip
     ELSE recurse

\* a call of scanRecursiveHelper(basePath, currentPath, ...): os.ReadDir, and
\* on success a new frame on the call stack
EnterDir(w, currentPath) ==
  LET dir == ReadDir(w.fs, currentPath)
  IN IF ~dir.ok THEN [w EXCEPT !.acc.failed = Append(@, currentPath)]
     ELSE [w EXCEPT !.acc.listed = Append(@, currentPath),
                    !.stack = Append(@, [ currentPath |-> currentPath,
                                          entries |-> dir.entries, k |-> 1 ])]

\* Scanner.scanRecursive
ScanRecursive(fs, rootPath, categoryName, ignored, acc) ==
  ScanRecursiveHelper(fs, rootPath, rootPath, categoryName, ignored, acc)

\* a loop that ends at the first path that is no repository
RECURSIVE ScanExplicitStopAtNonRepository(_, _, _, _)
ScanExplicitStopAtNonRepository(fs, category, k, acc) ==
  IF k > Len(category.Projects) THEN acc
  ELSE LET expandedPath == ExpandPath(category.Projects[k])
           projectName == Base(expandedPath)
       IN IF ~IsGitRepository(fs, expandedPath) THEN acc
          ELSE IF IsIgnored(projectName, category.Ignore)
            THEN ScanExplicitStopAtNonRepository(fs, category, k + 1, acc)
          ELSE ScanExplicitStopAtNonRepository(fs, category, k + 1,
                 Found(acc, Project(projectName, expandedPath, category.Name,
                                    NewRepository(fs, expandedPath), FALSE, << >>)))

\* scanCategory, mode 1: the loop over category.Projects
RECURSIVE ScanExplicit(_, _, _, _)
ScanExplicit(fs, category, k, acc) ==
  IF k > Len(category.Projects) THEN acc
  ELSE LET expandedPath == ExpandPath(category.Projects[k])
           projectName == Base(expandedPath)
       IN IF ~IsGitRepository(fs, expandedPath) THEN ScanExplicit(fs, category, k + 1, acc)
          ELSE IF IsIgnored(projectName, category.Ignore)
            THEN ScanExplicit(fs, category, k + 1, acc)
          ELSE ScanExplicit(fs, category, k + 1,
                 Found(acc, Project(projectName, expandedPath, category.Name,
                                    NewRepository(fs, expandedPath), FALSE, << >>)))

\* a scanCategory that scans the root when the explicit list yields nothing
ScanCategoryRootWhenNoneListed(fs, category, acc) ==
  IF Len(category.Projects) > 0 /\ ScanExplicit(fs, category, 1, acc) # acc
    THEN ScanExplicit(fs, category, 1, acc)
  ELSE IF category.Root # << >>
    THEN ScanRecursive(fs, ExpandPath(category.Root), category.Name, category.Ignore, acc)
  ELSE acc

\* Scanner.scanCategory
ScanCategory(fs, category, acc) ==
  IF Len(category.Projects) > 0 THEN ScanExplicit(fs, category, 1, acc)
  ELSE IF category.Root # << >>
    THEN ScanRecursive(fs, ExpandPath(category.Root), category.Name, category.Ignore, acc)
  ELSE acc

\* Scanner.ScanAll: the categories from the k-th on, in configured order
RECURSIVE ScanFrom(_, _, _, _)
ScanFrom(fs, cats, k, acc) ==
  IF k > Len(cats) THEN acc
  ELSE ScanFrom(fs, cats, k + 1, ScanCategory(fs, cats[k], acc))

ScanAll(fs, cats) == ScanFrom(fs, cats, 1, NoneScanned)

\* --------------------------------------------------------------- reporter
\* config.Display and the --verbose flag of the Reporter
Display(hideClean, hideIgnored, verbose) ==
  [ HideClean |-> hideClean, HideIgnored |-> hideIgnored, verbose |-> verbose ]

\* a result that counts as clean whatever its branches
ResultCleanIgnoringLag(result) ==
  ~(result.Status.Type # StatusSync /\ result.Status.Type # StatusIgnored)

\* the body of the allClean loops of Report and displayCategory: the result
\* leaves allClean true
ResultClean(result) ==
  /\ ~(result.Status.Type # StatusSync /\ result.Status.Type # StatusIgnored)
  /\ ~(Len(result.Status.BehindBranches) > 0)

AllClean(rs) == \A i \in 1..Len(rs) : ResultClean(rs[i])

\* Reporter.displayBehindBranches: one line per lagging branch
DisplayBehindBranches(result) ==
  [ k \in 1..Len(result.Status.BehindBranches) |->
      [ kind |-> "branch", Name |-> result.Status.BehindBranches[k].Branch,
        Text |-> result.Status.BehindBranches[k].Message ] ]

\* Reporter.displayProject: the line of the project, then its lagging branches
\* (none for a broken link)
DisplayProject(result) ==
  << [ kind |-> "project", Name |-> result.Name, Text |-> result.Status.Symbol ] >>
    \o (IF result.Status.Type = StatusBrokenSymlink THEN << >>
        ELSE DisplayBehindBranches(result))

\* the loops of displayCategory over the results from the k-th on
RECURSIVE DisplayProjects(_, _, _, _)
DisplayProjects(rs, k, d, allClean) ==
  IF k > Len(rs) THEN << >>
  ELSE LET result == rs[k]
           skip == IF ~allClean
                     THEN \/ d.HideIgnored /\ result.Status.Type = StatusIgnored
                          \/ /\ d.HideClean /\ ~d.verbose
                             /\ result.Status.Type = StatusSync
                             /\ Len(result.Status.BehindBranches) = 0
                   ELSE IF d.verbose
                     THEN d.HideIgnored /\ result.Status.Type = StatusIgnored
                   ELSE TRUE
       IN (IF skip THEN << >> ELSE DisplayProject(result))
            \o DisplayProjects(rs, k + 1, d, allClean)

\* Reporter.displayCategory: the header, then the projects
DisplayCategory(category, rs, d) ==
  << [ kind |-> "category", Name |-> category,
       Text |-> IF AllClean(rs) THEN "clean" ELSE "x" ] >>
    \o DisplayProjects(rs, 1, d, AllClean(rs))

\* nothing printed yet
NotPrinted == [ done |-> FALSE, banner |-> FALSE, blocks |-> << >> ]

\* Reporter.Report: "All projects are clean!", or one block per category (the
\* order of the blocks is that of a map iteration: any)
Report(rs, d) ==
  IF AllClean(rs) /\ ~d.verbose
    THEN [ done |-> TRUE, banner |-> TRUE, blocks |-> << >> ]
    ELSE [ done |-> TRUE, banner |-> FALSE,
           blocks |-> [ c \in { rs[i].Category : i \in 1..Len(rs) } |->
                          DisplayCategory(c, SelectSeq(rs, LAMBDA r : r.Category = c), d) ] ]

\* -------------------------------------------------------------------- tui
\* no TUI (CLI mode)
NoModel == [ none |-> TRUE ]

\* tui.NewModel
NewModel(cfgCategories) ==
  [ loading |-> TRUE,
    hideClean |-> TRUE,
    projects |-> << >>,
    categories |-> [ i \in 1..Len(cfgCategories) |-> cfgCategories[i].Name ],
    selectedCategory |-> 0,
    selectedProject |-> 0,
    detailsScroll |-> 0,
    focusedPanel |-> FALSE,
    fetchingProject |-> -1,
    errorMsg |-> "" ]

\* for i, x := range list { if x == value { ...i...; break } }: the index found
\* (from 0), -1 if none
IndexOf(list, value) ==
  IF \E i \in 1..Len(list) : list[i] = value
    THEN (CHOOSE i \in 1..Len(list) :
            list[i] = value /\ \A j \in 1..(i - 1) : list[j] # value) - 1
    ELSE -1

\* currentCategory / currentCat: "" when the selection is out of range
CurrentCategory(m) ==
  IF m.selectedCategory < Len(m.categories) THEN m.categories[m.selectedCategory + 1]
  ELSE ""

\* Model.getFilteredProjects
GetFilteredProjects(m) ==
  IF Len(m.projects) = 0 THEN << >>
  ELSE SelectSeq(m.projects, LAMBDA p :
         /\ ~(CurrentCategory(m) # "" /\ p.Project.Category # CurrentCategory(m))
         /\ ~(/\ m.hideClean /\ p.Status # NilStatus /\ p.Status.Type = StatusSync
              /\ Len(p.Status.BehindBranches) = 0))

\* Model.categoryHasChanges
CategoryHasChanges(m, categoryName) ==
  \E i \in 1..Len(m.projects) :
    /\ m.projects[i].Project.Category = categoryName
    /\ m.projects[i].Status # NilStatus
    /\ \/ m.projects[i].Status.Type # StatusSync
       \/ Len(m.projects[i].Status.BehindBranches) > 0

\* Model.getVisibleCategories
GetVisibleCategories(m) ==
  IF ~m.hideClean THEN m.categories
  ELSE SelectSeq(m.categories, LAMBDA cat : CategoryHasChanges(m, cat))

\* "if current category is hidden, move to first visible category" of the h
\* key and of scanCompleteMsg (which also resets the selected project)
SelectFirstVisible(m, resetProject) ==
  LET currentCat == CurrentCategory(m)
      visibleCategories == GetVisibleCategories(m)
  IN IF currentCat # "" /\ ~CategoryHasChanges(m, currentCat) /\ Len(visibleCategories) > 0
       THEN [m EXCEPT !.selectedCategory = IndexOf(m.categories, visibleCategories[1]),
                      !.selectedProject = IF resetProject THEN 0 ELSE @]
       ELSE m

\* Update, case scanCompleteMsg (msg.err is nil: ScanAll returns no error)
UpdateScanComplete(m, msgProjects) ==
  LET loaded == [m EXCEPT !.loading = FALSE, !.projects = msgProjects, !.errorMsg = ""]
  IN IF loaded.hideClean /\ Len(loaded.categories) > 0
       THEN SelectFirstVisible(loaded, TRUE)
       ELSE loaded

\* Update, key "h"
UpdateKeyH(m) ==
  LET toggled == [m EXCEPT !.hideClean = ~@, !.selectedProject = 0]
  IN IF toggled.hideClean THEN SelectFirstVisible(toggled, FALSE) ELSE toggled

\* Update, key "enter"
UpdateKeyEnter(m) == [m EXCEPT !.focusedPanel = ~@]

\* Update, keys "up" and "k"
UpdateKeyUp(m) ==
  IF m.focusedPanel
    THEN IF m.detailsScroll > 0 THEN [m EXCEPT !.detailsScroll = @ - 1] ELSE m
  ELSE IF m.selectedProject > 0
    THEN [m EXCEPT !.selectedProject = @ - 1, !.detailsScroll = 0]
  ELSE m

\* Update, keys "down" and "j"
UpdateKeyDown(m) ==
  IF m.focusedPanel THEN [m EXCEPT !.detailsScroll = @ + 1]
  ELSE IF m.selectedProject < Len(GetFilteredProjects(m)) - 1
    THEN [m EXCEPT !.selectedProject = @ + 1, !.detailsScroll = 0]
  ELSE m

\* Update, key "r": the model, and a scanProjectsCmd
UpdateKeyR(m) == [m EXCEPT !.loading = TRUE]

\* Update, key "f": the model and the index (from 0) of the entry of
\* m.projects the fetchProjectCmd it returns points to, -1 when it returns no
\* command
UpdateKeyFetch(m) ==
  LET filtered == GetFilteredProjects(m)
  IN IF Len(filtered) > 0 /\ m.selectedProject < Len(filtered)
       THEN LET selectedProj == filtered[m.selectedProject + 1]
                actualIndex == IndexOf([i \in 1..Len(m.projects) |-> m.projects[i].Project.Path],
                                       selectedProj.Project.Path)
            IN IF actualIndex # -1
                 THEN [ model |-> [m EXCEPT !.fetchingProject = actualIndex],
                        index |-> actualIndex ]
                 ELSE [ model |-> m, index |-> -1 ]
       ELSE [ model |-> m, index |-> -1 ]

\* the function fetchProjectCmd returns, run on the entry it points to, now
\* being the repository as git finds it at that time: the entry as it leaves
\* it and the error of its fetchCompleteMsg
FetchProjectCmd(projectWithStatus, now) ==
  IF projectWithStatus.Project.Repository = NilRepository
    THEN [ entry |-> projectWithStatus, err |-> NilError ]
  ELSE IF Fetch(now) # NilError
    THEN [ entry |-> projectWithStatus, err |-> Fetch(now) ]
  ELSE IF GetStatus(now).err # NilError
    THEN [ entry |-> projectWithStatus, err |-> GetStatus(now).err ]
  ELSE [ entry |-> [projectWithStatus EXCEPT !.Status = GetStatus(now).status],
         err |-> NilError ]

\* Update, case fetchCompleteMsg
UpdateFetchComplete(m, err) ==
  [m EXCEPT !.fetchingProject = -1,
            !.errorMsg = IF err # NilError THEN "Fetch failed: " \o err ELSE ""]

\* Update, key "f", with fetchProjectCmd run to its end and its
\* fetchCompleteMsg handled
UpdateKeyF(m, now) ==
  LET started == UpdateKeyFetch(m)
  IN IF started.index = -1 THEN m
     ELSE LET ran == FetchProjectCmd(m.projects[started.index + 1], now)
          IN UpdateFetchComplete(
               [started.model EXCEPT !.projects[started.index + 1] = ran.entry], ran.err)

\* Update, key "left"
UpdateKeyLeft(m) ==
  LET visibleCategories == GetVisibleCategories(m)
  IN IF Len(visibleCategories) > 0 /\ m.selectedCategory > 0
       THEN LET currentCat == m.categories[m.selectedCategory + 1]
                currentIndex == IndexOf(visibleCategories, currentCat)
            IN IF currentIndex > 0
                 THEN LET prevCat == visibleCategories[(currentIndex - 1) + 1]
                      IN [m EXCEPT !.selectedCategory = IndexOf(m.categories, prevCat),
                                   !.selectedProject = 0,
                                   !.detailsScroll = 0,
                                   !.focusedPanel = FALSE]
                 ELSE m
       ELSE m

\* Update, key "right"
UpdateKeyRight(m) ==
  LET visibleCategories == GetVisibleCategories(m)
  IN IF Len(visibleCategories) > 0 /\ m.selectedCategory < Len(m.categories) - 1
       THEN LET currentCat == m.categories[m.selectedCategory + 1]
                currentIndex == IndexOf(visibleCategories, currentCat)
            IN IF currentIndex >= 0 /\ currentIndex < Len(visibleCategories) - 1
                 THEN LET nextCat == visibleCategories[(currentIndex + 1) + 1]
                      IN [m EXCEPT !.selectedCategory = IndexOf(m.categories, nextCat),
                                   !.selectedProject = 0,
                                   !.detailsScroll = 0,
                                   !.focusedPanel = FALSE]
                 ELSE m
       ELSE m

\* Update on one of the keys h, up, down, left and right
UpdateKey(m, key) ==
  CASE key = "h" -> UpdateKeyH(m)
    [] key = "up" -> UpdateKeyUp(m)
    [] key = "down" -> UpdateKeyDown(m)
    [] key = "left" -> UpdateKeyLeft(m)
    [] key = "right" -> UpdateKeyRight(m)

\* View gets as far as the project list: every entry of m.projects is read
Renders(m) == ~m.loading /\ m.errorMsg = "" /\ Len(m.projects) > 0

\* Update on the key ranges over m.projects (getFilteredProjects,
\* categoryHasChanges or its own search)
UpdateReads(m, key) ==
  /\ Len(m.projects) > 0
  /\ \/ key \in {"f", "down"}
     \/ key \in {"left", "right"} /\ m.hideClean
     \/ key = "h" /\ ~m.hideClean

\* ---------------------------------------------------------------- updater
\* strings.TrimPrefix
TrimPrefix(str, prefix) ==
  IF HasPrefix(str, prefix) THEN SubSeq(str, Len(prefix) + 1, Len(str)) ELSE str

\* strings.Contains(str, sub)
ContainsString(str, sub) ==
  \E i \in 1..(Len(str) - Len(sub) + 1) : SubSeq(str, i, i + Len(sub) - 1) = sub

\* a nil *UpdateResult, and updater.UpdateResult
NilResult == [ nil |-> TRUE ]
UpdateResult(available, currentVersion, latestVersion) ==
  [ Available |-> available, CurrentVersion |-> currentVersion,
    LatestVersion |-> latestVersion ]

\* make(chan *UpdateResult, 1): the capacity
UpdateChannelCap == 1

\* the goroutine of CheckForUpdatesAsync up to its send: the value it sends,
\* given the version of the build and what getLatestVersion returned
\* (ok, tag)
UpdateValue(currentVersion, latestOk, latestVersion) ==
  IF \/ currentVersion = << >>
     \/ currentVersion = << "d", "e", "v" >>
     \/ ContainsString(currentVersion, << "d", "i", "r", "t", "y" >>)
    THEN NilResult
  ELSE IF ~latestOk THEN NilResult
  ELSE LET current == TrimPrefix(currentVersion, << "v" >>)
           latest == TrimPrefix(latestVersion, << "v" >>)
       IN IF current # latest THEN UpdateResult(TRUE, current, latest)
          ELSE UpdateResult(FALSE, << >>, << >>)

\* updater.PrintUpdateNotice: whether it prints
PrintsNotice(result) == ~(result = NilResult \/ ~result.Available)

\* ------------------------------------------------- config: filter and save
\* config.Config, with the fields the category filter and SaveConfig use
Config(cats, configPath, isFiltered) ==
  [ Categories |-> cats, ConfigPath |-> configPath, IsFiltered |-> isFiltered ]

\* yaml.Marshal(cfg): ConfigPath and IsFiltered carry the tag yaml:"-"
Marshal(cfg) == [ categories |-> cfg.Categories ]

\* loadFromFile followed by cfg.ConfigPath = paths[0]
LoadFromFile(path, data) == Config(data.categories, path, FALSE)

\* run: the --category filter; ok is false when no category has the name
FilterCategory(cfg, category) ==
  IF category = "" THEN [ ok |-> TRUE, cfg |-> cfg ]
  ELSE LET filteredCategories == SelectSeq(cfg.Categories, LAMBDA cat : cat.Name = category)
       IN IF Len(filteredCategories) = 0 THEN [ ok |-> FALSE, cfg |-> cfg ]
          ELSE [ ok |-> TRUE,
                 cfg |-> [cfg EXCEPT !.Categories = filteredCategories, !.IsFiltered = TRUE] ]

NoError == ""
ErrFilteredConfig == "cannot save filtered config (use without --category to save)"

\* SaveConfig without its check of IsFiltered
SaveConfigAnyConfig(cfg, file, writable) ==
  IF cfg.ConfigPath = "" THEN [ err |-> "config path is not set", file |-> file ]
  ELSE IF ~writable THEN [ err |-> "failed to write config file", file |-> file ]
  ELSE [ err |-> NoError, file |-> Marshal(cfg) ]

\* config.SaveConfig: the error returned and the file afterwards; writable is
\* whether os.WriteFile succeeds
SaveConfig(cfg, file, writable) ==
  IF cfg.ConfigPath = "" THEN [ err |-> "config path is not set", file |-> file ]
  ELSE IF cfg.IsFiltered THEN [ err |-> ErrFilteredConfig, file |-> file ]
  ELSE IF ~writable THEN [ err |-> "failed to write config file", file |-> file ]
  ELSE [ err |-> NoError, file |-> Marshal(cfg) ]

\* handleNoUpstream: append projectName to the ignore list of the first
\* category named categoryName
AddToIgnore(cats, categoryName, projectName) ==
  IF \E j \in 1..Len(cats) : cats[j].Name = categoryName
    THEN LET j == CHOOSE k \in 1..Len(cats) :
                    /\ cats[k].Name = categoryName
                    /\ \A l \in 1..(k - 1) : cats[l].Name # categoryName
         IN [cats EXCEPT ![j].Ignore = Append(@, projectName)]
  ELSE cats

\* handleNoUpstream: one turn of its loop on results[i], for the answers of
\* the user (an empty answer is Scanln failing), the outcome of SetUpstream,
\* the repository as the GetStatus that follows finds it, and whether the
\* file can be written
HandleNoUpstream(h, response, upstreamSet, now, ignoreResponse, writable) ==
  LET i == h.i
      result == h.results[i]
      next == [h EXCEPT !.i = i + 1]
  IN IF result.Status.Type # StatusNoUpstream
       THEN [next EXCEPT !.answers = Append(@, "none")]
     ELSE IF response \in {"n", "N"} THEN [next EXCEPT !.answers = Append(@, "declined")]
     ELSE IF upstreamSet
       THEN LET got == GetStatus(now)
            IN IF got.err # NilError
                 THEN [h EXCEPT !.pc = "failed", !.answers = Append(@, "set"),
                                !.err = "failed to get updated status: " \o got.err]
               ELSE [next EXCEPT !.results[i].Status = got.status,
                                 !.answers = Append(@, "set")]
     ELSE IF ignoreResponse = "" THEN [next EXCEPT !.answers = Append(@, "no answer")]
     ELSE IF ignoreResponse \in {"y", "Y"}
       THEN IF h.cfg.IsFiltered THEN [next EXCEPT !.answers = Append(@, "ignore")]
            ELSE LET cfg == [h.cfg EXCEPT
                              !.Categories = AddToIgnore(@, result.Category, result.Name)]
                     saved == SaveConfig(cfg, h.file, writable)
                 IN IF saved.err # NoError
                      THEN [next EXCEPT !.cfg = cfg, !.answers = Append(@, "ignore")]
                    ELSE [next EXCEPT !.cfg = cfg, !.file = saved.file,
                                      !.results[i].Status.Type = StatusIgnored,
                                      !.answers = Append(@, "ignore")]
     ELSE [next EXCEPT !.answers = Append(@, "skipped")]

\* ------------------------------------------------------------------ state
VARIABLES
  projects,          \* the list ScanAll returned
  fetchFlag,         \* --fetch
  cfgFetch,          \* cfg.Fetch
  shouldUseTUI,      \* useTUI || cfg.UseTUIByDefault
  fetchConcurrency,  \* cfg.FetchConcurrency
  pc,                \* where run() (or, in TUI mode, scanProjectsCmd) is
  fetchNext,         \* fetchProjects: next index of its range loop
  fetchPc,           \* fetchProjects: position of each goroutine
  fetchProj,         \* fetchProjects: the proj argument of each goroutine
  fetchSem,          \* fetchProjects: len(sem)
  fetchWg,           \* fetchProjects: the WaitGroup counter
  completed,         \* fetchProjects: the progress counter
  fetchLog,          \* per goroutine, the results of the Fetch calls it made
  results,           \* run, scanProjectsCmd: the result slots
  statusNext,        \* run: next index of its range loop
  statusPc,          \* run: position of each goroutine
  statusArg,         \* run: the (idx, proj) arguments of each goroutine
  sem,               \* run: len(sem)
  wg,                \* run: the WaitGroup counter
  statusLog,         \* per goroutine, the git commands of its GetStatus calls
  writes,            \* per result slot, the goroutines that wrote it, in order
  fsys,              \* the file system ScanAll reads
  categories,        \* cfg.Categories
  listed,            \* the directories ScanAll listed with os.ReadDir, in order
  failed,            \* the directories on which os.ReadDir returned an error
  matcher,           \* a call of Scanner.isIgnored: its arguments and its result
  caller,            \* a repository handle and what its GetStatus calls returned
  display,           \* cfg.Display and --verbose
  printed,           \* what Reporter.Report has printed
  tui,               \* the tui.Model
  program,           \* the tea.Program of the TUI: its commands in flight
  walker,            \* scanRecursive step by step: its call stack and what it has found
  updater,           \* the update check: its goroutine and channel, and run beside it
  handler            \* run from LoadConfig to handleNoUpstream: cfg, the file, the results

vars == << projects, fetchFlag, cfgFetch, shouldUseTUI, fetchConcurrency, pc,
           fetchNext, fetchPc, fetchProj, fetchSem, fetchWg, completed, fetchLog,
           results, statusNext, statusPc, statusArg, sem, wg, statusLog, writes,
           fsys, categories, listed, failed, matcher, caller, display, printed, tui,
           updater, handler, walker, program >>

\* what the batches and the scan never touch
restVars == << matcher, caller, display, printed, tui, updater, handler, walker, program >>

fetchVars == << fetchNext, fetchPc, fetchProj, fetchSem, fetchWg, completed, fetchLog >>
statusVars == << results, statusNext, statusPc, statusArg, sem, wg, statusLog, writes >>
inputVars == << projects, fetchFlag, cfgFetch, shouldUseTUI, fetchConcurrency,
               fsys, categories, listed, failed, restVars >>

\* shouldFetch := fetchFlag || cfg.Fetch
shouldFetch == fetchFlag \/ cfgFetch

N == Len(projects)
Workers == 1..N

\* ----------------------------------------------------------------- inputs
CleanRepo ==
  Repository(TRUE, {}, TRUE, "",
             {"On branch main", "nothing to commit, working tree clean"}, TRUE)
DirtyRepo ==
  Repository(TRUE, {}, TRUE, "",
             {"Changes to be committed:", "new file: c", "Untracked files:"}, FALSE)
NoUpstreamRepo ==
  Repository(FALSE, {"fatal: no upstream configured for branch 'main'"}, TRUE, "",
             {"modified: d"}, FALSE)

\* The descriptors discovery hands over in Spec
Catalog ==
  { Project("link", "/w/link", "a", NilRepository, TRUE, "/gone"),
    Project("clean", "/w/clean", "a", CleanRepo, FALSE, ""),
    Project("dirty", "/w/dirty", "b", DirtyRepo, FALSE, ""),
    Project("noup", "/w/noup", "b", NoUpstreamRepo, FALSE, "") }

CatalogSeq ==
  << Project("clean", "/w/clean", "a", CleanRepo, FALSE, ""),
     Project("dirty", "/w/dirty", "b", DirtyRepo, FALSE, ""),
     Project("noup", "/w/noup", "b", NoUpstreamRepo, FALSE, ""),
     Project("link", "/w/link", "a", NilRepository, TRUE, "/gone") >>

SeqsUpTo(S, n) == UNION { [1..k -> S] : k \in 0..n }

\* The descriptors discovery hands over in SpecShow: in each of three
\* categories a clean repository, a clean one with a branch behind its remote
\* and one with changes
LagRepo == WithBranches(CleanRepo, TRUE, << Branch("feature-x", TRUE, TRUE, "3", TRUE, "0") >>)

ShowCatalog ==
  { Project(kind[1] \o "-" \o c, "/w/" \o c \o "/" \o kind[1], c, kind[2], FALSE, "") :
      kind \in { << "clean", CleanRepo >>, << "lag", LagRepo >>, << "dirty", DirtyRepo >> },
      c \in { "a", "b", "c" } }

\* cfg.Categories of SpecShow
ShowCategories ==
  << Category("a", << "/", "w", "/", "a" >>, << >>, << >>),
     Category("b", << "/", "w", "/", "b" >>, << >>, << >>),
     Category("c", << "/", "w", "/", "c" >>, << >>, << >>) >>

\* The lists a scan of the TUI can return: projects p and q of category a,
\* each absent or with changes, and p of category b, clean or with changes
TuiCategories == SubSeq(ShowCategories, 1, 2)
TuiProject(c, n, kind) ==
  IF kind = "none" THEN << >>
  ELSE << Project(n, "/w/" \o c \o "/" \o n, c,
                  IF kind = "clean" THEN CleanRepo ELSE DirtyRepo, FALSE, "") >>
TuiLists ==
  { TuiProject("a", "p", k[1]) \o TuiProject("a", "q", k[2]) \o TuiProject("b", "p", k[3]) :
      k \in {"none", "dirty"} \X {"none", "dirty"} \X {"clean", "dirty"} }

\* Every repository whose git status prints at most MaxLines lines
Outputs == { o \in SUBSET StatusLines : Cardinality(o) <= MaxLines }
\* Diagnostics a failing git status can print
StatusDiagnostics == { "fatal: bad object HEAD", "error: index file corrupt" }
AllRepositories ==
  { Repository(u, {d} \ {""}, e = "", e, o, TRUE) :
      u \in BOOLEAN, d \in UpstreamDiagnostics, e \in {""} \cup StatusDiagnostics,
      o \in Outputs }

\* a repository whose git status fails
ErrorRepo ==
  Repository(TRUE, {}, FALSE, "fatal: bad object HEAD", {}, TRUE)

\* The lines git branch can print, with what the probes return on each
BranchKinds ==
  { Branch("feature-x", TRUE, TRUE, "3", TRUE, "0"),
    Branch("dev", TRUE, TRUE, "1", TRUE, "2"),
    Branch("hotfix", TRUE, TRUE, "2", FALSE, ""),
    Branch("main", TRUE, TRUE, "0", TRUE, "0"),
    Branch("local", FALSE, FALSE, "", FALSE, ""),
    Branch("gone", TRUE, FALSE, "", FALSE, ""),
    Branch("", FALSE, FALSE, "", FALSE, "") }

\* Every outcome of git branch of at most MaxBranches lines, on each kind of
\* current branch
LagRepositories ==
  { WithBranches(r, ok, bs) :
      r \in { CleanRepo, DirtyRepo, NoUpstreamRepo, ErrorRepo },
      ok \in BOOLEAN,
      bs \in SeqsUpTo(BranchKinds, MaxBranches) }


\* ------------------------------------------------- inputs of the scanner
ScanRoot == << "/", "w" >>

\* What lies outside the scan root: a repository /s/g, a directory /s/d with
\* a repository r in it, a file /s/f, and three links: /s/k1 to the
\* repository, /s/k2 to the directory, /s/k3 to a path that does not exist.
BaseFiles ==
  (<< "/" >> :> DirNode(TRUE)) @@ (ScanRoot :> DirNode(TRUE))
    @@ (<< "/", "s" >> :> DirNode(TRUE))
    @@ RepoAt(<< "/", "s", "/", "g" >>, CleanRepo)
    @@ (<< "/", "s", "/", "d" >> :> DirNode(TRUE))
    @@ RepoAt(<< "/", "s", "/", "d", "/", "r" >>, CleanRepo)
    @@ (<< "/", "s", "/", "f" >> :> FileNode)
    @@ (<< "/", "s", "/", "k", "1" >> :> LinkNode(<< "/", "s", "/", "g" >>))
    @@ (<< "/", "s", "/", "k", "2" >> :> LinkNode(<< "/", "s", "/", "d" >>))
    @@ (<< "/", "s", "/", "k", "3" >> :> LinkNode(<< "/", "s", "/", "x" >>))

\* The entries the scan root can hold, each with the files below it:
\*   a   a repository with a repository a/v/n nested in it
\*   b   a directory holding a repository b/r and a file b/f
\*   c   a file
\*   l1  a link to the repository /s/g      l5  a link to the link /s/k1
\*   l2  a link to b (relative target)      l6  a link to the link /s/k2
\*   l3  a link to a missing path           l7  a link to the link /s/k3
\*   l4  a link to the file /s/f            l8  a link to the directory a/v
EntryKinds ==
  { RepoAt(Join(ScanRoot, << "a" >>), CleanRepo)
      @@ (Join(ScanRoot, << "a", "/", "v" >>) :> DirNode(TRUE))
      @@ RepoAt(Join(ScanRoot, << "a", "/", "v", "/", "n" >>), DirtyRepo),
    (Join(ScanRoot, << "b" >>) :> DirNode(TRUE))
      @@ RepoAt(Join(ScanRoot, << "b", "/", "r" >>), DirtyRepo)
      @@ (Join(ScanRoot, << "b", "/", "f" >>) :> FileNode),
    Join(ScanRoot, << "c" >>) :> FileNode,
    Join(ScanRoot, << "l", "1" >>) :> LinkNode(<< "/", "s", "/", "g" >>),
    Join(ScanRoot, << "l", "2" >>) :> LinkNode(<< "b" >>),
    Join(ScanRoot, << "l", "3" >>) :> LinkNode(<< "/", "s", "/", "x" >>),
    Join(ScanRoot, << "l", "4" >>) :> LinkNode(<< "/", "s", "/", "f" >>),
    Join(ScanRoot, << "l", "5" >>) :> LinkNode(<< "/", "s", "/", "k", "1" >>),
    Join(ScanRoot, << "l", "6" >>) :> LinkNode(<< "/", "s", "/", "k", "2" >>),
    Join(ScanRoot, << "l", "7" >>) :> LinkNode(<< "/", "s", "/", "k", "3" >>),
    Join(ScanRoot, << "l", "8" >>) :> LinkNode(<< "/", "w", "/", "a", "/", "v" >>) }

RECURSIVE WithFiles(_, _)
WithFiles(fs, entries) ==
  IF entries = {} THEN fs
  ELSE LET e == CHOOSE e \in entries : TRUE
       IN WithFiles(fs @@ e, entries \ {e})

\* Every file system whose scan root holds at most MaxEntries of the entries
FileSystems ==
  { WithFiles(BaseFiles, es) : es \in { x \in SUBSET EntryKinds : Cardinality(x) <= MaxEntries } }

\* The categories a configuration can hold
CategoryKinds ==
  { Category("scan", ScanRoot, << >>, << >>),
    Category("scan", ScanRoot, << >>, << << "a" >>, << "l", "3" >> >>),
    Category("scan", ScanRoot, << >>, << << "l", "2", "/", "*" >>, << "*", "7" >> >>),
    Category("sub", << "/", "w", "/", "b" >>, << >>, << >>),
    Category("both", ScanRoot,
             << << "/", "w", "/", "a" >>, << "/", "w", "/", "c" >>,
                << "~", "/", "b", "/", "r" >> >>,
             << >>),
    Category("twice", << >>,
             << << "/", "w", "/", "a" >>, << "/", "w", "/", "a" >> >>,
             << >>),
    Category("none", ScanRoot,
             << << "/", "w", "/", "c" >>, << "/", "w", "/", "b", "/", "r" >>,
                << "/", "w", "/", "l", "1" >> >>,
             << << "r" >>, << "l", "*" >> >>),
    Category("empty", << >>, << >>, << >>) }

Configurations == SeqsUpTo(CategoryKinds, MaxCategories)

\* ------------------------- inputs of the scanner: what a scan passes over
NodeModules == << "n", "o", "d", "e", "_", "m", "o", "d", "u", "l", "e", "s" >>
DSStore == << ".", "D", "S", "_", "S", "t", "o", "r", "e" >>

\* Entries of the scan root that a scan cannot list or must not look at:
\*   a, t   repositories
\*   m      a directory that cannot be listed (search permission only), with a
\*          repository m/r in it
\*   o      a directory without any permission, with a repository o/r in it
\*   e      a directory holding a repository e/r and a node_modules directory
\*          with a repository in it
\*   lm, lo links to the repositories m/r and o/r
\*   node_modules, .DS_Store   as a directory with a repository in it, as a
\*          repository, as a link to a repository, to a directory and to a
\*          missing path, and as a file
SkipEntryKinds ==
  { RepoAt(Join(ScanRoot, << "a" >>), CleanRepo),
    RepoAt(Join(ScanRoot, << "t" >>), DirtyRepo),
    (Join(ScanRoot, << "m" >>) :> DirNode(FALSE))
      @@ RepoAt(Join(ScanRoot, << "m", "/", "r" >>), DirtyRepo),
    (Join(ScanRoot, << "o" >>) :> LockedDir)
      @@ RepoAt(Join(ScanRoot, << "o", "/", "r" >>), DirtyRepo),
    (Join(ScanRoot, << "e" >>) :> DirNode(TRUE))
      @@ RepoAt(Join(ScanRoot, << "e", "/", "r" >>), CleanRepo)
      @@ (Join(Join(ScanRoot, << "e" >>), NodeModules) :> DirNode(TRUE))
      @@ RepoAt(Join(Join(Join(ScanRoot, << "e" >>), NodeModules), << "r" >>), DirtyRepo),
    Join(ScanRoot, << "l", "m" >>) :> LinkNode(<< "/", "w", "/", "m", "/", "r" >>),
    Join(ScanRoot, << "l", "o" >>) :> LinkNode(<< "/", "w", "/", "o", "/", "r" >>),
    (Join(ScanRoot, NodeModules) :> DirNode(TRUE))
      @@ RepoAt(Join(Join(ScanRoot, NodeModules), << "r" >>), DirtyRepo),
    RepoAt(Join(ScanRoot, NodeModules), DirtyRepo),
    Join(ScanRoot, NodeModules) :> LinkNode(<< "/", "s", "/", "g" >>),
    Join(ScanRoot, NodeModules) :> LinkNode(<< "/", "s", "/", "d" >>),
    Join(ScanRoot, NodeModules) :> LinkNode(<< "/", "s", "/", "x" >>),
    (Join(ScanRoot, DSStore) :> DirNode(TRUE))
      @@ RepoAt(Join(Join(ScanRoot, DSStore), << "r" >>), DirtyRepo),
    Join(ScanRoot, DSStore) :> LinkNode(<< "/", "s", "/", "g" >>),
    Join(ScanRoot, DSStore) :> LinkNode(<< "/", "s", "/", "d" >>),
    Join(ScanRoot, DSStore) :> LinkNode(<< "/", "s", "/", "x" >>),
    Join(ScanRoot, DSStore) :> FileNode }

\* Every file system whose scan root holds at most MaxEntries of these entries,
\* no two of them under the same name
SkipFileSystems ==
  { WithFiles(BaseFiles, es) :
      es \in { x \in SUBSET SkipEntryKinds :
                 /\ Cardinality(x) <= MaxEntries
                 /\ \A e1, e2 \in x : e1 # e2 => DOMAIN e1 \cap DOMAIN e2 = {} } }

\* The categories of these scans: the root scanned with no pattern, with
\* patterns, from a root that is itself named node_modules, from a root that
\* does not exist, and an explicit list that names a repository inside m
SkipCategoryKinds ==
  { Category("scan", ScanRoot, << >>, << >>),
    Category("scan", ScanRoot, << >>, << << "a" >>, << "l", "*" >> >>),
    Category("mods", Join(ScanRoot, NodeModules), << >>, << >>),
    Category("gone", << "/", "w", "/", "x" >>, << >>, << >>),
    Category("list", << >>,
             << << "/", "w", "/", "m", "/", "r" >>, << "/", "w", "/", "t" >> >>,
             << >>) }

SkipConfigurations == SeqsUpTo(SkipCategoryKinds, MaxCategories)

\* ------------------------------------------------- inputs of isIgnored
\* The project paths isIgnored is given are clean relative paths (what
\* filepath.Rel and filepath.Base return): every such path of at most MaxPath
\* characters, and those of the documentation
CleanRelative(path) ==
  /\ path # << >>
  /\ path[1] # "/"
  /\ path[Len(path)] # "/"
  /\ \A i \in 1..(Len(path) - 1) : ~(path[i] = "/" /\ path[i + 1] = "/")

DocPaths ==
  { << "_", "a", "r", "c", "h", "i", "v", "e", "s", "/", "f", "o", "o" >>,
    << "f", "o", "o", "-", "o", "l", "d" >>,
    << "f", "o", "o" >>,
    << "f", "o", "o", "b", "a", "r" >> }

MatchPaths ==
  { p \in SeqsUpTo({ "a", "b", "/" }, MaxPath) : CleanRelative(p) } \cup DocPaths

\* The patterns are any strings of the configuration file: every string of at
\* most MaxPattern characters, and those of the documentation
DocPatterns ==
  { << "_", "a", "r", "c", "h", "i", "v", "e", "s", "/", "*" >>,
    << "*", "-", "o", "l", "d" >>,
    << "f", "o", "o" >> }

MatchPatterns == SeqsUpTo({ "a", "/", "*", "?" }, MaxPattern) \cup DocPatterns

\* the ignore lists: none, one pattern, two patterns
IgnoreLists ==
  { << >> } \cup { << p >> : p \in MatchPatterns }
    \cup { << p, q >> : p, q \in DocPatterns \cup { << "a", "/", "*" >>, << "?", "*" >> } }

\* ------------------------------------------------------------------- Init
\* no call of isIgnored under way
MatcherIdle ==
  [ projectPath |-> << >>, ignored |-> << >>, called |-> FALSE, result |-> FALSE ]

\* no repository handle in use outside the batches
CallerIdle == [ repository |-> NilRepository, returned |-> << >> ]

\* no update check started
UpdaterIdle ==
  [ version |-> << >>, latestOk |-> FALSE, latest |-> << >>,
    run |-> "off", task |-> "off", value |-> NilResult,
    ch |-> << >>, closed |-> FALSE, sends |-> 0,
    received |-> << >>, notices |-> 0 ]

\* run has not loaded a configuration
HandlerIdle ==
  [ pc |-> "off", category |-> "", original |-> Marshal(Config(<< >>, "", FALSE)),
    file |-> Marshal(Config(<< >>, "", FALSE)), cfg |-> Config(<< >>, "", FALSE),
    projects |-> << >>, results |-> << >>, i |-> 1, answers |-> << >>,
    err |-> NilError ]

\* no tea.Program runs
ProgramIdle == [ view |-> FALSE, gen |-> 0, scans |-> 0, started |-> 0, fetches |-> << >> ]

\* no scan is made step by step
WalkerIdle == [ pc |-> "off", fs |-> BaseFiles, stack |-> << >>, acc |-> NoneScanned ]

\* the parts of the program that are not in S are at rest
IdleExcept(S) ==
  /\ IF "matcher" \in S THEN TRUE ELSE matcher = MatcherIdle
  /\ IF "caller" \in S THEN TRUE ELSE caller = CallerIdle
  /\ IF "show" \in S THEN TRUE
     ELSE display = Display(TRUE, TRUE, FALSE) /\ printed = NotPrinted /\ tui = NoModel
  /\ IF "updater" \in S THEN TRUE ELSE updater = UpdaterIdle
  /\ IF "handler" \in S THEN TRUE ELSE handler = HandlerIdle
  /\ IF "walker" \in S THEN TRUE ELSE walker = WalkerIdle
  /\ IF "program" \in S THEN TRUE ELSE program = ProgramIdle

\* run() is not under way: nothing scanned, no goroutine
BatchIdle ==
  /\ pc = "off"
  /\ projects = << >>
  /\ fetchFlag = FALSE
  /\ cfgFetch = FALSE
  /\ shouldUseTUI = FALSE
  /\ fetchConcurrency = 1
  /\ fetchNext = 1
  /\ fetchPc = << >>
  /\ fetchProj = << >>
  /\ fetchSem = 0
  /\ fetchWg = 0
  /\ completed = 0
  /\ fetchLog = << >>
  /\ results = << >>
  /\ statusNext = 1
  /\ statusPc = << >>
  /\ statusArg = << >>
  /\ sem = 0
  /\ wg = 0
  /\ statusLog = << >>
  /\ writes = << >>
  /\ fsys = BaseFiles
  /\ categories = << >>
  /\ listed = << >>
  /\ failed = << >>

InitRun ==
  /\ pc = "start"
  /\ fetchNext = 1
  /\ fetchPc = [w \in Workers |-> "idle"]
  /\ fetchProj = [w \in Workers |-> NoProject]
  /\ fetchSem = 0
  /\ fetchWg = 0
  /\ completed = 0
  /\ fetchLog = [w \in Workers |-> << >>]
  /\ results = << >>
  /\ statusNext = 1
  /\ statusPc = [w \in Workers |-> "idle"]
  /\ statusArg = [w \in Workers |-> [idx |-> 0, proj |-> NoProject]]
  /\ sem = 0
  /\ wg = 0
  /\ statusLog = [w \in Workers |-> << >>]
  /\ writes = [i \in Workers |-> << >>]
  /\ fsys = BaseFiles
  /\ categories = << >>
  /\ listed = << >>
  /\ failed = << >>
  /\ IdleExcept({})

Init ==
  /\ projects \in SeqsUpTo(Catalog, MaxProjects)
  /\ fetchFlag \in BOOLEAN
  /\ cfgFetch \in BOOLEAN
  /\ shouldUseTUI \in BOOLEAN
  /\ fetchConcurrency \in 1..MaxFetchConcurrency
  /\ InitRun

\* fetch_concurrency: 0 in the configuration file, beside a ceiling of 1:
\* run hands cfg.FetchConcurrency to fetchProjects as it is
InitGate ==
  /\ projects \in SeqsUpTo(Catalog, MaxProjects)
  /\ fetchFlag \in BOOLEAN
  /\ cfgFetch \in BOOLEAN
  /\ shouldUseTUI \in BOOLEAN
  /\ fetchConcurrency \in {0, 1}
  /\ InitRun

\* more projects than the status ceiling
InitLoad ==
  /\ projects = [i \in 1..LoadProjects |-> CatalogSeq[(i % Len(CatalogSeq)) + 1]]
  /\ fetchFlag = FALSE
  /\ cfgFetch = FALSE
  /\ shouldUseTUI = FALSE
  /\ fetchConcurrency = 1
  /\ InitRun

\* one project, every repository
InitClassify ==
  /\ projects \in { <<Project("p", "/w/p", "a", r, FALSE, "")>> : r \in AllRepositories }
  /\ fetchFlag = FALSE
  /\ cfgFetch = FALSE
  /\ shouldUseTUI \in BOOLEAN
  /\ fetchConcurrency = 1
  /\ InitRun

\* one project, every outcome of the branch probes
InitLag ==
  /\ projects \in { <<Project("p", "/w/p", "a", r, FALSE, "")>> : r \in LagRepositories }
  /\ fetchFlag = FALSE
  /\ cfgFetch = FALSE
  /\ shouldUseTUI \in BOOLEAN
  /\ fetchConcurrency = 1
  /\ InitRun

\* before discovery: a file system and a configuration
InitScan ==
  /\ fsys \in FileSystems
  /\ categories \in Configurations
  /\ listed = << >>
  /\ failed = << >>
  /\ projects = << >>
  /\ fetchFlag = FALSE
  /\ cfgFetch = FALSE
  /\ shouldUseTUI = FALSE
  /\ fetchConcurrency = 1
  /\ pc = "scan"
  /\ fetchNext = 1
  /\ fetchPc = << >>
  /\ fetchProj = << >>
  /\ fetchSem = 0
  /\ fetchWg = 0
  /\ completed = 0
  /\ fetchLog = << >>
  /\ results = << >>
  /\ statusNext = 1
  /\ statusPc = << >>
  /\ statusArg = << >>
  /\ sem = 0
  /\ wg = 0
  /\ statusLog = << >>
  /\ writes = << >>
  /\ IdleExcept({})

\* before discovery: a file system with entries a scan passes over
InitSkip ==
  /\ fsys \in SkipFileSystems
  /\ categories \in SkipConfigurations
  /\ listed = << >>
  /\ failed = << >>
  /\ projects = << >>
  /\ fetchFlag = FALSE
  /\ cfgFetch = FALSE
  /\ shouldUseTUI = FALSE
  /\ fetchConcurrency = 1
  /\ pc = "scan"
  /\ fetchNext = 1
  /\ fetchPc = << >>
  /\ fetchProj = << >>
  /\ fetchSem = 0
  /\ fetchWg = 0
  /\ completed = 0
  /\ fetchLog = << >>
  /\ results = << >>
  /\ statusNext = 1
  /\ statusPc = << >>
  /\ statusArg = << >>
  /\ sem = 0
  /\ wg = 0
  /\ statusLog = << >>
  /\ writes = << >>
  /\ IdleExcept({})

\* a call of isIgnored about to be made
InitMatch ==
  /\ BatchIdle
  /\ matcher \in { [ projectPath |-> p, ignored |-> l, called |-> FALSE, result |-> FALSE ] :
                      p \in MatchPaths, l \in IgnoreLists }
  /\ IdleExcept({"matcher"})

\* The entries of a scan root with symbolic links that lead back:
\*   l      a link to the scan root itself
\*   d      a directory with a link d/u to d
\*   m, n   two directories, m/x a link to n and n/x a link to m
\*   r      a repository
\*   k      a link to itself
\*   o, i   two links, each to the other
CycleEntryKinds ==
  { << "/", "w", "/", "l" >> :> LinkNode(ScanRoot),
    (<< "/", "w", "/", "d" >> :> DirNode(TRUE))
      @@ (<< "/", "w", "/", "d", "/", "u" >> :> LinkNode(<< "/", "w", "/", "d" >>)),
    (<< "/", "w", "/", "m" >> :> DirNode(TRUE))
      @@ (<< "/", "w", "/", "m", "/", "x" >> :> LinkNode(<< "/", "w", "/", "n" >>))
      @@ (<< "/", "w", "/", "n" >> :> DirNode(TRUE))
      @@ (<< "/", "w", "/", "n", "/", "x" >> :> LinkNode(<< "/", "w", "/", "m" >>)),
    RepoAt(<< "/", "w", "/", "r" >>, CleanRepo),
    << "/", "w", "/", "k" >> :> LinkNode(<< "/", "w", "/", "k" >>),
    (<< "/", "w", "/", "o" >> :> LinkNode(<< "/", "w", "/", "i" >>))
      @@ (<< "/", "w", "/", "i" >> :> LinkNode(<< "/", "w", "/", "o" >>)) }

CycleFileSystems == { WithFiles(BaseFiles, es) : es \in SUBSET CycleEntryKinds }

\* scanRecursive is about to be called on the root
InitCycle ==
  /\ BatchIdle
  /\ walker \in { [WalkerIdle EXCEPT !.pc = "call", !.fs = f] : f \in CycleFileSystems }
  /\ IdleExcept({"walker"})

\* tui.Run: the model is new, Init has started the first scan, View is due
InitTui ==
  /\ BatchIdle
  /\ display = Display(TRUE, TRUE, FALSE)
  /\ printed = NotPrinted
  /\ tui = NewModel(TuiCategories)
  /\ program = [ProgramIdle EXCEPT !.view = TRUE, !.scans = 1, !.started = 1]
  /\ IdleExcept({"show", "program"})

\* The configuration files and --category values of a run, and the results
\* its projects can have
ConfigFile == "check-projects.yml"
HandlerCategories ==
  { [ Name |-> n, Ignore |-> ig ] : n \in {"a", "b"}, ig \in { << >>, << "p" >> } }
HandlerFiles ==
  { Marshal(Config(cats, ConfigFile, FALSE)) : cats \in SeqsUpTo(HandlerCategories, 2) }
\* a repository on which every git command of GetStatus fails
BrokenRepo ==
  WithBranches(Repository(FALSE, {"fatal: not a git repository"}, FALSE,
                          "fatal: not a git repository", {}, FALSE), FALSE, << >>)
HandlerRepositories == { CleanRepo, DirtyRepo, NoUpstreamRepo, ErrorRepo, BrokenRepo }
HandlerProjects ==
  { Project(n, "/w/" \o n, c, r, FALSE, "") :
      n \in {"p", "q"}, c \in {"a", "b"}, r \in HandlerRepositories }

\* run is about to load its configuration
InitHandle ==
  /\ BatchIdle
  /\ handler \in { [HandlerIdle EXCEPT !.pc = "load", !.category = c,
                                       !.original = f, !.file = f] :
                      c \in {"", "a", "b"}, f \in HandlerFiles }
  /\ IdleExcept({"handler"})

\* The versions a build can carry and the tags GitHub can return
BuildVersions ==
  { << >>, << "d", "e", "v" >>, << "v", "1", "-", "d", "i", "r", "t", "y" >>,
    << "v", "1" >>, << "1" >>, << "v", "2" >> }
LatestTags == { << "v", "1" >>, << "v", "2" >>, << "2" >> }

\* run is about to start the update check
InitUpdate ==
  /\ BatchIdle
  /\ updater \in { [UpdaterIdle EXCEPT !.version = v, !.latestOk = ok, !.latest = t,
                                       !.run = "begin"] :
                      v \in BuildVersions, ok \in BOOLEAN, t \in LatestTags }
  /\ IdleExcept({"updater"})

\* a repository handle on which GetStatus is about to be called
InitCalls ==
  /\ BatchIdle
  /\ caller \in { [ repository |-> r, returned |-> << >> ] : r \in LagRepositories }
  /\ IdleExcept({"caller"})

\* ------------------------------------------------- channel and WaitGroup
\* sem <- struct{}{} proceeds only while the buffer has room
CanSendOneMore(len, cap) == len <= cap

CanSend(len, cap) == len < cap

\* wg.Wait() returns when the counter is zero
WaitReturnsEarly(counter) == counter <= 1

WaitReturns(counter) == counter = 0

\* results := make([]reporter.ProjectResult, len(projects)), and in TUI mode
\* make([]ProjectWithStatus, len(projects)): every Status is nil
MakeResults ==
  [i \in 1..N |-> IF shouldUseTUI THEN ProjectWithStatus(ZeroProject, NilStatus)
                                  ELSE ZeroResult]

\* ------------------------------------------------------------ run: scan
\* projects, err := s.ScanAll(); the goroutines of the batches are those of
\* the descriptors it returned
ScanProjects ==
  /\ pc = "scan"
  /\ LET scanned == ScanAll(fsys, categories)
         workers == 1..Len(scanned.projects)
     IN /\ projects' = scanned.projects
        /\ listed' = scanned.listed
        /\ failed' = scanned.failed
        /\ fetchPc' = [w \in workers |-> "idle"]
        /\ fetchProj' = [w \in workers |-> NoProject]
        /\ fetchLog' = [w \in workers |-> << >>]
        /\ statusPc' = [w \in workers |-> "idle"]
        /\ statusArg' = [w \in workers |-> [idx |-> 0, proj |-> NoProject]]
        /\ statusLog' = [w \in workers |-> << >>]
        /\ writes' = [i \in workers |-> << >>]
  /\ pc' = "start"
  /\ UNCHANGED << fetchFlag, cfgFetch, shouldUseTUI, fetchConcurrency, fsys, categories,
                  fetchNext, fetchSem, fetchWg, completed, results, statusNext, sem, wg,
                  restVars >>

\* s.isIgnored(projectPath, ignored)
CallIsIgnored ==
  /\ ~matcher.called
  /\ matcher' = [matcher EXCEPT !.called = TRUE,
                                 !.result = IsIgnored(matcher.projectPath, matcher.ignored)]
  /\ UNCHANGED << projects, fetchFlag, cfgFetch, shouldUseTUI, fetchConcurrency, pc,
                  fetchVars, statusVars, fsys, categories, listed, failed, caller,
                  display, printed, tui, updater, handler, walker, program >>

\* a handle that reports the lagging branches on its first call only
CallGetStatusLagOnce ==
  /\ caller.repository # NilRepository
  /\ Len(caller.returned) < MaxCalls
  /\ LET got == GetStatus(caller.repository)
     IN caller' = [caller EXCEPT !.returned =
                     Append(@, IF caller.returned = << >> THEN got
                               ELSE [got EXCEPT !.status.BehindBranches = << >>])]
  /\ UNCHANGED << projects, fetchFlag, cfgFetch, shouldUseTUI, fetchConcurrency, pc,
                  fetchVars, statusVars, fsys, categories, listed, failed, matcher,
                  display, printed, tui, updater, handler, walker, program >>

\* status, err := repository.GetStatus(), on a repository whose git outputs are
\* what they were at the previous call; the handle keeps its Path and Name
CallGetStatus ==
  /\ caller.repository # NilRepository
  /\ Len(caller.returned) < MaxCalls
  /\ caller' = [caller EXCEPT !.returned = Append(@, GetStatus(caller.repository))]
  /\ UNCHANGED << projects, fetchFlag, cfgFetch, shouldUseTUI, fetchConcurrency, pc,
                  fetchVars, statusVars, fsys, categories, listed, failed, matcher,
                  display, printed, tui, updater, handler, walker, program >>

\* ------------------------------------------------------ run: the report
batchVars == << projects, fetchFlag, cfgFetch, shouldUseTUI, fetchConcurrency,
                fetchVars, statusVars, fsys, categories, listed, failed >>

\* rep := reporter.NewReporter(cfg, verbose); rep.Report(results)
ReportResults ==
  /\ pc = "report"
  /\ printed' = Report(results, display)
  /\ pc' = "reported"
  /\ UNCHANGED << batchVars, matcher, caller, display, tui, updater, handler, walker, program >>

\* ------------------------------------------------------------ tui: Update
\* the scanCompleteMsg of scanProjectsCmd reaches Update
TuiScanComplete ==
  /\ pc = "scanComplete"
  /\ tui # NoModel
  /\ tui' = UpdateScanComplete(tui, results)
  /\ pc' = "tui"
  /\ UNCHANGED << batchVars, matcher, caller, display, printed, updater, handler, walker, program >>

\* a key reaches Update (at any time from tui.Run on)
TuiKeyH ==
  /\ tui # NoModel
  /\ tui' = UpdateKeyH(tui)
  /\ UNCHANGED << batchVars, pc, matcher, caller, display, printed, updater, handler, walker, program >>

TuiKeyEnter ==
  /\ tui # NoModel
  /\ tui' = UpdateKeyEnter(tui)
  /\ UNCHANGED << batchVars, pc, matcher, caller, display, printed, updater, handler, walker, program >>

TuiKeyUp ==
  /\ tui # NoModel
  /\ tui' = UpdateKeyUp(tui)
  /\ UNCHANGED << batchVars, pc, matcher, caller, display, printed, updater, handler, walker, program >>

TuiKeyDown ==
  /\ tui # NoModel
  /\ tui.focusedPanel => tui.detailsScroll < MaxScroll
  /\ tui' = UpdateKeyDown(tui)
  /\ UNCHANGED << batchVars, pc, matcher, caller, display, printed, updater, handler, walker, program >>

\* the f key, on a repository whose changes have been committed and pushed
\* since the scan, or whose fetch fails
TuiKeyF ==
  /\ tui # NoModel
  /\ \E now \in {CleanRepo, DirtyRepo} : tui' = UpdateKeyF(tui, now)
  /\ UNCHANGED << batchVars, pc, matcher, caller, display, printed, updater, handler, walker, program >>

TuiKeyLeft ==
  /\ tui # NoModel
  /\ tui' = UpdateKeyLeft(tui)
  /\ UNCHANGED << batchVars, pc, matcher, caller, display, printed, updater, handler, walker, program >>

TuiKeyRight ==
  /\ tui # NoModel
  /\ tui' = UpdateKeyRight(tui)
  /\ UNCHANGED << batchVars, pc, matcher, caller, display, printed, updater, handler, walker, program >>

\* ------------------------------------------------ run: the update check
notUpdater == << batchVars, pc, matcher, caller, display, printed, tui, handler, walker,
                program >>

\* updateCh := updater.CheckForUpdatesAsync(Version): the channel is made and
\* the goroutine started; run goes on
CheckForUpdatesAsync ==
  /\ updater.run = "begin"
  /\ updater' = [updater EXCEPT !.run = "running", !.task = "check"]
  /\ UNCHANGED notUpdater

\* the goroutine up to its send (getLatestVersion returns within its timeout)
UpdateTaskCheck ==
  /\ updater.task = "check"
  /\ updater' = [updater EXCEPT
                   !.task = "send",
                   !.value = UpdateValue(updater.version, updater.latestOk, updater.latest)]
  /\ UNCHANGED notUpdater

\* ch <- value
UpdateTaskSend ==
  /\ updater.task = "send"
  /\ CanSend(Len(updater.ch), UpdateChannelCap)
  /\ updater' = [updater EXCEPT !.task = "close", !.ch = Append(@, updater.value),
                                 !.sends = @ + 1]
  /\ UNCHANGED notUpdater

\* the deferred close(ch); the goroutine ends
UpdateTaskClose ==
  /\ updater.task = "close"
  /\ updater' = [updater EXCEPT !.task = "done", !.closed = TRUE]
  /\ UNCHANGED notUpdater

\* run returns without reading the channel: an error of LoadConfig, of the
\* category filter or of handleNoUpstream, or tui.Run has returned
RunReturnsEarly ==
  /\ updater.run = "running"
  /\ updater' = [updater EXCEPT !.run = "returned"]
  /\ UNCHANGED notUpdater

\* run reaches its last statement, the select on updateCh
RunReachesSelect ==
  /\ updater.run = "running"
  /\ updater' = [updater EXCEPT !.run = "select"]
  /\ UNCHANGED notUpdater

\* a receive without a default branch: result := <-updateCh
SelectUpdateBlocking ==
  /\ updater.run = "select"
  /\ Len(updater.ch) > 0 \/ updater.closed
  /\ updater' =
       IF Len(updater.ch) > 0
         THEN [updater EXCEPT !.run = "returned", !.ch = Tail(@),
                              !.received = Append(@, Head(updater.ch)),
                              !.notices = IF PrintsNotice(Head(updater.ch)) THEN @ + 1 ELSE @]
       ELSE [updater EXCEPT !.run = "returned", !.received = Append(@, NilResult)]
  /\ UNCHANGED notUpdater

\* select { case result := <-updateCh: PrintUpdateNotice(result); default: }
SelectUpdate ==
  /\ updater.run = "select"
  /\ updater' =
       IF Len(updater.ch) > 0
         THEN [updater EXCEPT !.run = "returned", !.ch = Tail(@),
                              !.received = Append(@, Head(updater.ch)),
                              !.notices = IF PrintsNotice(Head(updater.ch)) THEN @ + 1 ELSE @]
       ELSE IF updater.closed
         THEN [updater EXCEPT !.run = "returned", !.received = Append(@, NilResult)]
       ELSE [updater EXCEPT !.run = "returned"]
  /\ UNCHANGED notUpdater

notHandler == << batchVars, pc, matcher, caller, display, printed, tui, updater, walker,
                program >>

\* ------------------------------------------- scanRecursive, step by step
notWalker == << batchVars, pc, matcher, caller, display, printed, tui, updater, handler,
               program >>

\* the category whose root is scanned
CycleCategory == Category("scan", ScanRoot, << >>, << >>)

\* scanRecursive(rootPath, ...) calls scanRecursiveHelper on the root
WalkRoot ==
  /\ walker.pc = "call"
  /\ walker' = [EnterDir(walker, ExpandPath(CycleCategory.Root)) EXCEPT !.pc = "loop"]
  /\ UNCHANGED notWalker

\* one turn of the loop of the innermost call
WalkEntry ==
  /\ walker.pc = "loop"
  /\ walker.stack # << >>
  /\ LET depth == Len(walker.stack)
         frame == walker.stack[depth]
     IN /\ frame.k <= Len(frame.entries)
        /\ LET step == EntryStep(walker.fs, ExpandPath(CycleCategory.Root), frame.currentPath,
                                 CycleCategory.Name, CycleCategory.Ignore,
                                 frame.entries[frame.k])
               turned == [walker EXCEPT !.stack[depth].k = @ + 1]
           IN walker' =
                CASE step.do = "continue" -> turned
                  [] step.do = "append" -> [turned EXCEPT !.acc = Found(@, step.project)]
                  [] step.do = "recurse" -> EnterDir(turned, step.path)
  /\ UNCHANGED notWalker

\* the loop of the innermost call is over: the call returns
WalkReturn ==
  /\ walker.pc = "loop"
  /\ walker.stack # << >>
  /\ LET frame == walker.stack[Len(walker.stack)]
     IN frame.k > Len(frame.entries)
  /\ walker' = [walker EXCEPT !.stack = SubSeq(@, 1, Len(@) - 1)]
  /\ UNCHANGED notWalker

\* scanRecursive returns
WalkDone ==
  /\ walker.pc = "loop"
  /\ walker.stack = << >>
  /\ walker' = [walker EXCEPT !.pc = "done"]
  /\ UNCHANGED notWalker

\* ----------------------------------------------------------- run: start
\* TUI mode returns tui.Run before any fetch: Init starts scanProjectsCmd
StartRun ==
  /\ pc = "start"
  /\ IF shouldFetch /\ ~shouldUseTUI
       THEN /\ pc' = "fetchLoop"
            /\ UNCHANGED results
       ELSE /\ pc' = "statusLoop"
            /\ results' = MakeResults
  /\ UNCHANGED << inputVars, fetchVars, statusNext, statusPc, statusArg, sem, wg,
                  statusLog, writes >>

\* ---------------------------------------------------------- fetchProjects
\* for _, project := range projects { wg.Add(1); go func(proj) {...}(project) }
FetchSpawn ==
  /\ pc = "fetchLoop"
  /\ fetchNext <= N
  /\ fetchWg' = fetchWg + 1
  /\ fetchPc' = [fetchPc EXCEPT ![fetchNext] = "waiting"]
  /\ fetchProj' = [fetchProj EXCEPT ![fetchNext] = projects[fetchNext]]
  /\ fetchNext' = fetchNext + 1
  /\ UNCHANGED << inputVars, pc, fetchSem, completed, fetchLog, statusVars >>

\* sem <- struct{}{}
FetchAcquire(w) ==
  /\ fetchPc[w] = "waiting"
  /\ CanSend(fetchSem, fetchConcurrency)
  /\ fetchSem' = fetchSem + 1
  /\ fetchPc' = [fetchPc EXCEPT ![w] = "running"]
  /\ UNCHANGED << inputVars, pc, fetchNext, fetchProj, fetchWg, completed, fetchLog,
                  statusVars >>

\* a goroutine that gives up when its fetch fails
FetchBodyAbortOnError(w) ==
  /\ fetchPc[w] = "running"
  /\ LET proj == fetchProj[w]
         errs == IF proj.Repository # NilRepository
                   THEN << Fetch(proj.Repository) >> ELSE << >>
     IN /\ fetchLog' = [fetchLog EXCEPT ![w] = errs]
        /\ completed' = IF errs = << "fetch failed" >> THEN completed ELSE completed + 1
  /\ fetchSem' = fetchSem - 1
  /\ fetchWg' = fetchWg - 1
  /\ fetchPc' = [fetchPc EXCEPT ![w] = "done"]
  /\ UNCHANGED << inputVars, pc, fetchNext, fetchProj, statusVars >>

\* a goroutine that keeps its place in sem when the descriptor has no
\* repository
FetchBodyKeepsGate(w) ==
  /\ fetchPc[w] = "running"
  /\ LET proj == fetchProj[w]
         errs == IF proj.Repository # NilRepository
                   THEN << Fetch(proj.Repository) >> ELSE << >>
     IN /\ fetchLog' = [fetchLog EXCEPT ![w] = errs]
        /\ fetchSem' = IF proj.Repository = NilRepository THEN fetchSem ELSE fetchSem - 1
  /\ completed' = completed + 1
  /\ fetchWg' = fetchWg - 1
  /\ fetchPc' = [fetchPc EXCEPT ![w] = "done"]
  /\ UNCHANGED << inputVars, pc, fetchNext, fetchProj, statusVars >>

\* if proj.Repository != nil { _ = proj.Repository.Fetch() }; completed++;
\* then the deferred <-sem and wg.Done()
FetchBody(w) ==
  /\ fetchPc[w] = "running"
  /\ LET proj == fetchProj[w]
         errs == IF proj.Repository # NilRepository
                   THEN << Fetch(proj.Repository) >> ELSE << >>
     IN fetchLog' = [fetchLog EXCEPT ![w] = errs]
  /\ completed' = completed + 1
  /\ fetchSem' = fetchSem - 1
  /\ fetchWg' = fetchWg - 1
  /\ fetchPc' = [fetchPc EXCEPT ![w] = "done"]
  /\ UNCHANGED << inputVars, pc, fetchNext, fetchProj, statusVars >>

\* a fetch pass that returns without joining its goroutines
FetchJoinNoWait ==
  /\ pc = "fetchLoop"
  /\ fetchNext > N
  /\ pc' = "statusLoop"
  /\ results' = MakeResults
  /\ UNCHANGED << inputVars, fetchVars, statusNext, statusPc, statusArg, sem, wg,
                  statusLog, writes >>

\* wg.Wait() of fetchProjects, then run goes on to allocate the result slots
FetchJoin ==
  /\ pc = "fetchLoop"
  /\ fetchNext > N
  /\ WaitReturns(fetchWg)
  /\ pc' = "statusLoop"
  /\ results' = MakeResults
  /\ UNCHANGED << inputVars, fetchVars, statusNext, statusPc, statusArg, sem, wg,
                  statusLog, writes >>

\* ------------------------------------------------- run: the status batch
\* the arguments of go func(idx int, proj scanner.Project) {...}(i, project)
GoArgsMirrored(i) == [ idx |-> N + 1 - i, proj |-> projects[i] ]

GoArgsFirstSlot(i) == [ idx |-> 1, proj |-> projects[i] ]

GoArgs(i) == [ idx |-> i, proj |-> projects[i] ]

\* for i, project := range projects { wg.Add(1); go func(...) {...}(i, project) }
StatusSpawn ==
  /\ pc = "statusLoop"
  /\ statusNext <= N
  /\ wg' = wg + 1
  /\ statusPc' = [statusPc EXCEPT ![statusNext] = "waiting"]
  /\ statusArg' = [statusArg EXCEPT ![statusNext] = GoArgs(statusNext)]
  /\ statusNext' = statusNext + 1
  /\ UNCHANGED << inputVars, pc, fetchVars, results, sem, statusLog, writes >>

\* sem <- struct{}{}
StatusAcquire(w) ==
  /\ statusPc[w] = "waiting"
  /\ CanSend(sem, StatusConcurrency)
  /\ sem' = sem + 1
  /\ statusPc' = [statusPc EXCEPT ![w] = "running"]
  /\ UNCHANGED << inputVars, pc, fetchVars, results, statusNext, statusArg, wg,
                  statusLog, writes >>

\* a body whose broken-link slot is filled as an error
CheckProjectNoBrokenLink(proj) ==
  IF proj.Repository = NilRepository THEN
    [ result |-> ProjectResult(proj.Name, Status(StatusError, "no repository", "x"),
                               proj.Category, proj.IsSymlink, proj.SymlinkTarget),
      ran |-> << >> ]
  ELSE
    LET got == GetStatus(proj.Repository)
        status == IF got.err # NilError
                    THEN Status(StatusError, got.err, "x") ELSE got.status
    IN [ result |-> ProjectResult(proj.Name, status, proj.Category,
                                  proj.IsSymlink, proj.SymlinkTarget),
         ran |-> got.ran ]

\* the goroutine body: the slot value it computes and the git commands it ran
CheckProject(proj) ==
  IF proj.Repository = NilRepository THEN
    [ result |-> ProjectResult(proj.Name, Status(StatusBrokenSymlink, "", "link x"),
                               proj.Category, proj.IsSymlink, proj.SymlinkTarget),
      ran |-> << >> ]
  ELSE
    LET got == GetStatus(proj.Repository)
        status == IF got.err # NilError
                    THEN Status(StatusError, got.err, "x") ELSE got.status
    IN [ result |-> ProjectResult(proj.Name, status, proj.Category,
                                  proj.IsSymlink, proj.SymlinkTarget),
         ran |-> got.ran ]

\* the goroutine body of scanProjectsCmd
ScanProject(proj) ==
  IF proj.Repository = NilRepository THEN
    [ result |-> ProjectWithStatus(proj, Status(StatusBrokenSymlink, "", "link x")),
      ran |-> << >> ]
  ELSE
    LET got == GetStatus(proj.Repository)
        status == IF got.err # NilError
                    THEN Status(StatusError, got.err, "x") ELSE got.status
    IN [ result |-> ProjectWithStatus(proj, status), ran |-> got.ran ]

\* ---------------------------------------- run: filter, handleNoUpstream
\* run from LoadConfig to the results of the status batch: the configuration
\* is loaded and filtered, and the projects of its categories are checked
RunCategories ==
  /\ handler.pc = "load"
  /\ LET loaded == LoadFromFile(ConfigFile, handler.file)
         filtered == FilterCategory(loaded, handler.category)
     IN IF ~filtered.ok
          THEN handler' = [handler EXCEPT !.pc = "failed", !.cfg = loaded,
                                          !.err = "category not found"]
        ELSE \E ps \in SeqsUpTo(HandlerProjects, MaxResults) :
               /\ \A k \in 1..Len(ps) :
                    \E j \in 1..Len(filtered.cfg.Categories) :
                      filtered.cfg.Categories[j].Name = ps[k].Category
               /\ handler' = [handler EXCEPT !.pc = "handle", !.cfg = filtered.cfg,
                                              !.projects = ps,
                                              !.results = [k \in 1..Len(ps) |->
                                                             CheckProject(ps[k]).result]]
  /\ UNCHANGED notHandler

\* one turn of the loop of handleNoUpstream; what the turn does not read (the
\* second answer and the file once the upstream is set, the repository when
\* it is not, everything when the project has an upstream or the first
\* answer is no) is given one value
HandleNoUpstreamTurn ==
  /\ handler.pc = "handle"
  /\ handler.i <= Len(handler.results)
  /\ \E response \in {"", "y", "N"}, upstreamSet \in BOOLEAN,
        now \in HandlerRepositories,
        ignoreResponse \in {"", "Y", "n"}, writable \in BOOLEAN :
       /\ upstreamSet => ignoreResponse = "" /\ writable
       /\ ~upstreamSet => now = CleanRepo
       /\ (\/ handler.results[handler.i].Status.Type # StatusNoUpstream
           \/ response = "N")
            => upstreamSet /\ now = CleanRepo
       /\ handler.results[handler.i].Status.Type # StatusNoUpstream => response = "y"
       /\ handler' = HandleNoUpstream(handler, response, upstreamSet, now,
                                      ignoreResponse, writable)
  /\ UNCHANGED notHandler

\* handleNoUpstream returns nil
HandleNoUpstreamReturn ==
  /\ handler.pc = "handle"
  /\ handler.i > Len(handler.results)
  /\ handler' = [handler EXCEPT !.pc = "handled"]
  /\ UNCHANGED notHandler

\* ------------------------------------ tui: the program and its commands
\* The event loop of the tea.Program handles one message at a time: Update,
\* then View. The commands Update returns run in goroutines of their own and
\* send their message when they are done. m.projects is a slice: the model
\* Update returns shares its array with the one it was given, and a
\* scanCompleteMsg brings a new array (gen counts them).
notProgram == << batchVars, pc, matcher, caller, display, printed, updater, handler, walker >>

\* View is called on the model Update returned
ProgramView ==
  /\ program.view
  /\ program' = [program EXCEPT !.view = FALSE]
  /\ UNCHANGED << tui, notProgram >>

\* the scanCompleteMsg of a scanProjectsCmd reaches Update
ProgramScanComplete ==
  /\ ~program.view
  /\ program.scans > 0
  /\ \E ps \in TuiLists :
       tui' = UpdateScanComplete(tui, [i \in 1..Len(ps) |-> ScanProject(ps[i]).result])
  /\ program' = [program EXCEPT !.view = TRUE, !.scans = @ - 1, !.gen = @ + 1]
  /\ UNCHANGED notProgram

\* the r key
ProgramKeyR ==
  /\ ~program.view
  /\ program.started < MaxScans
  /\ tui' = UpdateKeyR(tui)
  /\ program' = [program EXCEPT !.view = TRUE, !.scans = @ + 1, !.started = @ + 1]
  /\ UNCHANGED notProgram

\* the f key: the command it returns points into the array of this time
ProgramKeyF ==
  /\ ~program.view
  /\ Len(program.fetches) < MaxFetches
  /\ LET out == UpdateKeyFetch(tui)
     IN /\ tui' = out.model
        /\ program' = [program EXCEPT
                         !.view = TRUE,
                         !.fetches = IF out.index = -1 THEN @
                                     ELSE Append(@, [ gen |-> program.gen,
                                                      projectIndex |-> out.index,
                                                      phase |-> "run" ])]
  /\ UNCHANGED notProgram

\* a fetchProjectCmd runs to its return: it writes the new status through
\* its pointer, into the array m.projects has now or into one a scan has
\* replaced since (every project of the lists has a repository, so what a
\* replaced array holds does not matter to it)
ProgramFetchRun(k) ==
  /\ program.fetches[k].phase = "run"
  /\ \E now \in {CleanRepo, DirtyRepo} :
       LET c == program.fetches[k]
           current == c.gen = program.gen
           ran == FetchProjectCmd(IF current THEN tui.projects[c.projectIndex + 1]
                                  ELSE ProjectWithStatus(TuiProject("a", "p", "clean")[1],
                                                         NilStatus), now)
       IN /\ tui' = IF current THEN [tui EXCEPT !.projects[c.projectIndex + 1] = ran.entry]
                    ELSE tui
          /\ program' = [program EXCEPT
                           !.fetches[k].phase = IF ran.err = NilError THEN "wrote" ELSE "failed"]
  /\ UNCHANGED notProgram

\* the fetchCompleteMsg of a command reaches Update
ProgramFetchComplete(k) ==
  /\ ~program.view
  /\ program.fetches[k].phase # "run"
  /\ tui' = UpdateFetchComplete(tui, IF program.fetches[k].phase = "failed"
                                       THEN "fetch failed" ELSE NilError)
  /\ program' = [program EXCEPT
                   !.view = TRUE,
                   !.fetches = SubSeq(@, 1, k - 1) \o SubSeq(@, k + 1, Len(@))]
  /\ UNCHANGED notProgram

\* one of the keys h, up, down, left and right
ProgramKey(key) ==
  /\ ~program.view
  /\ tui' = UpdateKey(tui, key)
  /\ program' = [program EXCEPT !.view = TRUE]
  /\ UNCHANGED notProgram

NextTui ==
  \/ ProgramView
  \/ ProgramScanComplete
  \/ ProgramKeyR
  \/ ProgramKeyF
  \/ \E k \in 1..Len(program.fetches) : ProgramFetchRun(k)
  \/ \E k \in 1..Len(program.fetches) : ProgramFetchComplete(k)
  \/ \E key \in {"h", "up", "down", "left", "right"} : ProgramKey(key)

SpecTui == InitTui /\ [][NextTui]_vars

\* results[idx] = ...; then the deferred <-sem and wg.Done()
StatusBody(w) ==
  /\ statusPc[w] = "running"
  /\ LET a == statusArg[w]
         out == IF shouldUseTUI THEN ScanProject(a.proj) ELSE CheckProject(a.proj)
     IN /\ results' = [results EXCEPT ![a.idx] = out.result]
        /\ statusLog' = [statusLog EXCEPT ![w] = out.ran]
        /\ writes' = [writes EXCEPT ![a.idx] = Append(@, w)]
  /\ sem' = sem - 1
  /\ wg' = wg - 1
  /\ statusPc' = [statusPc EXCEPT ![w] = "done"]
  /\ UNCHANGED << inputVars, pc, fetchVars, statusNext, statusArg >>

\* wg.Wait(); then rep.Report(results), or in TUI mode return scanCompleteMsg
StatusJoin ==
  /\ pc = "statusLoop"
  /\ statusNext > N
  /\ WaitReturns(wg)
  /\ pc' = IF shouldUseTUI THEN "scanComplete" ELSE "report"
  /\ UNCHANGED << inputVars, fetchVars, statusVars >>

\* the status batch has returned: the results are about to be reported (CLI)
\* or delivered to the TUI, which has been on screen since tui.Run
InitShow ==
  /\ projects \in SeqsUpTo(ShowCatalog, MaxProjects)
  /\ shouldUseTUI \in BOOLEAN
  /\ display \in { Display(h, i, v) : h, i, v \in BOOLEAN }
  /\ shouldUseTUI => display.verbose = FALSE /\ display.HideIgnored = TRUE
  /\ printed = NotPrinted
  /\ tui = IF shouldUseTUI THEN NewModel(ShowCategories) ELSE NoModel
  /\ categories = ShowCategories
  /\ pc = IF shouldUseTUI THEN "scanComplete" ELSE "report"
  /\ results = [ i \in 1..N |-> IF shouldUseTUI THEN ScanProject(projects[i]).result
                                  ELSE CheckProject(projects[i]).result ]
  /\ statusNext = N + 1
  /\ statusPc = [ w \in Workers |-> "done" ]
  /\ statusArg = [ w \in Workers |-> GoArgs(w) ]
  /\ sem = 0
  /\ wg = 0
  /\ statusLog = [ w \in Workers |-> CheckProject(projects[w]).ran ]
  /\ writes = [ i \in Workers |-> << i >> ]
  /\ fetchFlag = FALSE
  /\ cfgFetch = FALSE
  /\ fetchConcurrency = 1
  /\ fetchNext = 1
  /\ fetchPc = [ w \in Workers |-> "idle" ]
  /\ fetchProj = [ w \in Workers |-> NoProject ]
  /\ fetchSem = 0
  /\ fetchWg = 0
  /\ completed = 0
  /\ fetchLog = [ w \in Workers |-> << >> ]
  /\ fsys = BaseFiles
  /\ listed = << >>
  /\ failed = << >>
  /\ IdleExcept({"show"})

Next ==
  \/ StartRun
  \/ FetchSpawn
  \/ \E w \in Workers : FetchAcquire(w)
  \/ \E w \in Workers : FetchBody(w)
  \/ FetchJoin
  \/ StatusSpawn
  \/ \E w \in Workers : StatusAcquire(w)
  \/ \E w \in Workers : StatusBody(w)
  \/ StatusJoin

Spec == Init /\ [][Next]_vars

\* The Go scheduler runs every goroutine that can run: run itself, and each
\* goroutine of the two batches at its acquire and at its body. Every git
\* command returns, so a body is one step.
Fairness ==
  /\ WF_vars(StartRun)
  /\ WF_vars(FetchSpawn)
  /\ WF_vars(FetchJoin)
  /\ WF_vars(StatusSpawn)
  /\ WF_vars(StatusJoin)
  /\ \A w \in 1..MaxProjects :
       /\ WF_vars(w \in Workers /\ FetchAcquire(w))
       /\ WF_vars(w \in Workers /\ FetchBody(w))
       /\ WF_vars(w \in Workers /\ StatusAcquire(w))
       /\ WF_vars(w \in Workers /\ StatusBody(w))

SpecFair == Init /\ [][Next]_vars /\ Fairness
\* the run with a gate of no place; an unbuffered sem has no receiver before
\* a send has gone through (each goroutine receives after its own send), so a
\* send on it waits as a send on a full buffer does
SpecGate == InitGate /\ [][Next]_vars
\* the status batch alone (no fetch pass)
NextStatus ==
  \/ StartRun
  \/ StatusSpawn
  \/ \E w \in Workers : StatusAcquire(w)
  \/ \E w \in Workers : StatusBody(w)
  \/ StatusJoin

SpecLoad == InitLoad /\ [][NextStatus]_vars
SpecClassify == InitClassify /\ [][NextStatus]_vars
SpecLag == InitLag /\ [][NextStatus]_vars

\* discovery, then the status batch
NextScan ==
  \/ ScanProjects
  \/ NextStatus

SpecScan == InitScan /\ [][NextScan]_vars

\* discovery alone
NextDiscover == ScanProjects

SpecSkip == InitSkip /\ [][NextDiscover]_vars

\* one call of isIgnored
NextMatch == CallIsIgnored

SpecMatch == InitMatch /\ [][NextMatch]_vars

\* successive GetStatus calls on one repository
NextCalls == CallGetStatus

SpecCalls == InitCalls /\ [][NextCalls]_vars

\* what is shown once the batch has returned: the report, or the TUI and its
\* keys
NextShow ==
  \/ ReportResults
  \/ TuiScanComplete
  \/ TuiKeyH
  \/ TuiKeyEnter
  \/ TuiKeyUp
  \/ TuiKeyDown
  \/ TuiKeyF
  \/ TuiKeyLeft
  \/ TuiKeyRight

SpecShow == InitShow /\ [][NextShow]_vars

\* the update check beside run
UpdateTaskNext == UpdateTaskCheck \/ UpdateTaskSend \/ UpdateTaskClose

NextUpdate ==
  \/ CheckForUpdatesAsync
  \/ UpdateTaskCheck
  \/ UpdateTaskSend
  \/ UpdateTaskClose
  \/ RunReturnsEarly
  \/ RunReachesSelect
  \/ SelectUpdate

SpecUpdate == InitUpdate /\ [][NextUpdate]_vars

\* scan-mode discovery of one root, one statement at a time
NextCycle ==
  \/ WalkRoot
  \/ WalkEntry
  \/ WalkReturn
  \/ WalkDone

SpecCycle == InitCycle /\ [][NextCycle]_vars

\* run with or without --category, up to the end of handleNoUpstream
NextHandle ==
  \/ RunCategories
  \/ HandleNoUpstreamTurn
  \/ HandleNoUpstreamReturn

SpecHandle == InitHandle /\ [][NextHandle]_vars


\* ================================================================ claims
Live(position) == { w \in Workers : position[w] \in {"waiting", "running"} }
Holding(position) == { w \in Workers : position[w] = "running" }
Ran(w, cmd) == \E k \in 1..Len(statusLog[w]) : statusLog[w][k] = cmd
Broken(i) == projects[i].Repository = NilRepository
Returned == pc \in {"report", "scanComplete"}
\* the descriptor fields a slot carries (ProjectResult copies them, ProjectWithStatus
\* holds the descriptor)
SlotName(i) == IF shouldUseTUI THEN results[i].Project.Name ELSE results[i].Name
SlotCategory(i) == IF shouldUseTUI THEN results[i].Project.Category ELSE results[i].Category
BrokenLinkStatus == Status(StatusBrokenSymlink, "", "link x")

\* C1: in the status batch the number of goroutines holding a semaphore token
\* (GetStatus operations in flight) never exceeds the ceiling of 10, here with
\* more projects than the ceiling.
C1_InFlightAtMostCeiling ==
  /\ Cardinality(Holding(statusPc)) <= StatusConcurrency
  /\ sem = Cardinality(Holding(statusPc))

C1_Witness ==
  /\ Cardinality(Holding(statusPc)) = StatusConcurrency
  /\ \E w \in Workers : statusPc[w] = "waiting"

\* C2: when the status batch has returned (CLI or TUI), slot i holds the name,
\* the category and the status of project i, whatever order the goroutines
\* finished in.
C2_ResultMatchesInput ==
  Returned =>
    /\ Len(results) = N
    /\ \A i \in 1..N :
         /\ SlotName(i) = projects[i].Name
         /\ SlotCategory(i) = projects[i].Category
         /\ results[i].Status =
              IF Broken(i) THEN BrokenLinkStatus
              ELSE GetStatus(projects[i].Repository).status

C2_Witness ==
  /\ Returned
  /\ N >= 2
  /\ \E i, j \in 1..N : i < j /\ projects[i].Name # projects[j].Name
                        /\ results[i].Status # results[j].Status

\* C3: the batch is a barrier: once run (or scanProjectsCmd) is past wg.Wait(),
\* every slot holds a non-nil status and no goroutine of the batch is still
\* running.
C3_Barrier ==
  Returned =>
    /\ \A i \in 1..N : results[i].Status # NilStatus
    /\ \A w \in Workers : statusPc[w] = "done"
    /\ wg = 0
    /\ sem = 0

C3_Witness ==
  /\ pc = "scanComplete"
  /\ N >= 2
  /\ \A i \in 1..N : results[i].Status # NilStatus

\* C4: each goroutine writes only the slot of its own index, a slot is written
\* at most once while the batch runs and exactly once when it has returned, no
\* two goroutines share a slot, and run() reads no slot while one is active.
C4_OneSlotPerWorker ==
  /\ \A i \in 1..N :
       /\ Len(writes[i]) <= 1
       /\ writes[i] # << >> => writes[i] = << i >>
       /\ Returned => writes[i] = << i >>
  /\ \A v, w \in Workers :
       (v # w /\ statusPc[v] # "idle" /\ statusPc[w] # "idle")
         => statusArg[v].idx # statusArg[w].idx
  /\ Returned => Live(statusPc) = {}

C4_Witness ==
  \E v, w \in Workers :
    /\ v # w
    /\ statusPc[v] = "running"
    /\ statusPc[w] = "running"
    /\ \E i \in 1..N : writes[i] # << >>

\* C5: a project without a repository handle gets the fixed broken-link result
\* in its own slot; neither GetStatus nor Fetch is ever called for it.
C5_BrokenLinkShortCircuit ==
  \A w \in Workers :
    Broken(w) =>
      /\ statusLog[w] = << >>
      /\ fetchLog[w] = << >>
      /\ statusPc[w] = "done" =>
           results[w] =
             IF shouldUseTUI
               THEN ProjectWithStatus(projects[w], BrokenLinkStatus)
               ELSE ProjectResult(projects[w].Name, BrokenLinkStatus,
                                  projects[w].Category, projects[w].IsSymlink,
                                  projects[w].SymlinkTarget)

C5_Witness ==
  \E w \in Workers :
    /\ Broken(w)
    /\ fetchPc[w] = "done"
    /\ statusPc[w] = "done"
    /\ \E v \in Workers : ~Broken(v) /\ statusPc[v] = "done"

\* C6: failed fetches are swallowed: once the fetch pass of a CLI run has
\* returned (the TUI has none), every one of its goroutines has finished and
\* been counted, and the status batch then classifies every project, those
\* whose fetch failed included.
C6_FetchFailuresSwallowed ==
  /\ ((fetchFlag \/ cfgFetch) /\ ~shouldUseTUI /\ pc \in {"statusLoop", "report"}) =>
       /\ completed = N
       /\ fetchWg = 0
       /\ fetchSem = 0
       /\ \A w \in Workers :
            /\ fetchPc[w] = "done"
            /\ ~Broken(w) => fetchLog[w] = << Fetch(projects[w].Repository) >>
  /\ pc = "report" =>
       \A i \in 1..N : /\ results[i].Status # NilStatus
                       /\ ~Broken(i) => Ran(i, "rev-list @{u}..HEAD")

C6_Witness ==
  /\ cfgFetch
  /\ pc = "report"
  /\ \E i, j \in 1..N : /\ fetchLog[i] = << "fetch failed" >>
                        /\ fetchLog[j] = << NilError >>
                        /\ results[i].Status.Type \in {StatusUnsync, StatusNoUpstream}

\* C7: with fetching enabled by flag or config in a CLI run, no goroutine of
\* the status batch exists (so no GetStatus has started) before every goroutine
\* of the fetch pass has finished.
C7_FetchPassJoinedFirst ==
  ((fetchFlag \/ cfgFetch) /\ ~shouldUseTUI
     /\ (results # << >> \/ \E w \in Workers : statusPc[w] # "idle")) =>
    /\ fetchNext = N + 1
    /\ \A v \in Workers : fetchPc[v] = "done"

C7_Witness ==
  /\ fetchFlag
  /\ ~cfgFetch
  /\ N >= 2
  /\ \E w \in Workers : statusPc[w] = "running"
  /\ \E v \in Workers : fetchLog[v] # << >>

\* C8, as stated: the goroutines that exist at any time during a batch are at
\* most the ceiling, whatever N is.
C8_TasksAtMostCeiling ==
  /\ Cardinality(Live(statusPc)) <= StatusConcurrency
  /\ Cardinality(Live(fetchPc)) <= fetchConcurrency

\* C8, amended: one goroutine is started per project, so up to N exist at once;
\* only those past the admission gate are bounded by the ceiling.
C8_OneTaskPerProject ==
  /\ Cardinality(Live(fetchPc)) <= N
  /\ Cardinality(Live(statusPc)) <= N
  /\ Cardinality(Live(fetchPc)) = fetchWg
  /\ Cardinality(Live(statusPc)) = wg
  /\ Cardinality(Holding(fetchPc)) <= fetchConcurrency
  /\ fetchSem <= fetchConcurrency
  /\ sem <= StatusConcurrency
  /\ \A w \in Workers : fetchPc[w] = "idle" \/ projects[w] = fetchProj[w]

C8_Witness ==
  /\ Cardinality(Live(fetchPc)) = N
  /\ N > fetchConcurrency
  /\ Cardinality(Holding(fetchPc)) = fetchConcurrency

\* C9: after a successful git status (no missing upstream reported) the result
\* is the classification of the first rule that matches its output, in the
\* order staged+rename, staged+new file, staged, modified, deleted, untracked,
\* ahead, behind, diverged, clean, unknown.
RuleMatches(k, o) ==
  CASE k = 1 -> "Changes to be committed:" \in o /\ "renamed: a -> b" \in o
    [] k = 2 -> "Changes to be committed:" \in o /\ "new file: c" \in o
    [] k = 3 -> "Changes to be committed:" \in o
    [] k = 4 -> "modified: d" \in o
    [] k = 5 -> "deleted: e" \in o
    [] k = 6 -> "Untracked files:" \in o
    [] k = 7 -> "Your branch is ahead of 'origin/main' by 1 commit." \in o
    [] k = 8 -> "Your branch is behind 'origin/main' by 2 commits, and can be fast-forwarded." \in o
    [] k = 9 -> "Your branch and 'origin/main' have diverged," \in o
    [] k = 10 -> "nothing to commit, working tree clean" \in o
    [] OTHER -> TRUE

RuleResult ==
  << Status(StatusUnsync, "Staged renames", "* R"),
     Status(StatusUnsync, "Staged files", "* +"),
     Status(StatusUnsync, "Staged changes", "*s"),
     Status(StatusUnsync, "Modified files", "* M"),
     Status(StatusUnsync, "Deleted files", "* D"),
     Status(StatusUnsync, "Untracked files", "+"),
     Status(StatusUnsync, "Ahead of remote", "^"),
     Status(StatusUnsync, "Behind remote", "v"),
     Status(StatusUnsync, "Diverged from remote", "^^"),
     Status(StatusSync, "Clean", "ok"),
     Status(StatusUnsync, "Unknown state", "*") >>

FirstRule(o) == CHOOSE k \in 1..11 : RuleMatches(k, o) /\ \A j \in 1..(k - 1) : ~RuleMatches(j, o)

InspectionSucceeded(w) ==
  /\ statusPc[w] = "done"
  /\ ~Broken(w)
  /\ Ran(w, "status")
  /\ projects[w].Repository.statusOk

C9_FirstMatchingRuleWins ==
  \A w \in Workers :
    InspectionSucceeded(w) =>
      LET o == projects[w].Repository.output
          st == results[w].Status
      IN /\ st = RuleResult[FirstRule(o)]
         /\ ("Changes to be committed:" \in o /\ "Untracked files:" \in o)
              => st.Message \in {"Staged renames", "Staged files", "Staged changes"}
         /\ ("modified: d" \in o /\ "Changes to be committed:" \notin o
               /\ "Your branch is ahead of 'origin/main' by 1 commit." \in o)
              => st.Message = "Modified files"
         /\ (o = { "Your branch is ahead of 'origin/main' by 1 commit.",
                   "nothing to commit, working tree clean" })
              => st.Message = "Ahead of remote" /\ st.Type = StatusUnsync

C9_Witness ==
  \E w \in Workers :
    /\ InspectionSucceeded(w)
    /\ projects[w].Repository.output =
         { "Changes to be committed:", "new file: c", "Untracked files:" }
    /\ results[w].Status.Message = "Staged files"

\* C10: the result is NoUpstream exactly when the upstream probe failed with a
\* diagnostic that reports a missing upstream; then git status is not run,
\* whatever the working tree holds. In every other case git status is run.
MissingUpstreamReports ==
  { "fatal: no upstream configured for branch 'main'",
    "fatal: upstream branch 'refs/heads/x' not stored as a remote-tracking branch",
    "fatal: no such branch: 'main'" }

C10_NoUpstreamIffReported ==
  \A w \in Workers :
    (statusPc[w] = "done" /\ ~Broken(w)) =>
      LET r == projects[w].Repository
          reported == ~r.upstreamOk /\ (r.upstreamStderr \cap MissingUpstreamReports) # {}
      IN /\ results[w].Status.Type = StatusNoUpstream <=> reported
         /\ reported => /\ ~Ran(w, "status")
                        /\ results[w].Status =
                             Status(StatusNoUpstream, "No upstream configured", "! No upstream")
         /\ ~reported => Ran(w, "status")

C10_Witness ==
  \E w \in Workers :
    /\ statusPc[w] = "done"
    /\ results[w].Status.Type = StatusNoUpstream
    /\ "Changes to be committed:" \in projects[w].Repository.output
    /\ projects[w].Repository.statusOk

\* C11: when no missing upstream was reported and git status fails, the result
\* is an error status whose message carries the diagnostic git printed; the
\* text rules are not applied, whatever the output holds, and GetStatus returns
\* it as a status with a nil error (the caller's own error status, whose
\* message is the error text, is not what the slot holds).
InspectionFailed(w) ==
  /\ statusPc[w] = "done"
  /\ ~Broken(w)
  /\ ~projects[w].Repository.statusOk
  /\ ~(~projects[w].Repository.upstreamOk
         /\ (projects[w].Repository.upstreamStderr \cap MissingUpstreamReports) # {})

C11_FailedInspectionIsErrorValue ==
  \A w \in Workers :
    InspectionFailed(w) =>
      LET r == projects[w].Repository
          st == results[w].Status
      IN /\ st.Type = StatusError
         /\ st.Message = "Error: " \o r.statusStderr
         /\ st.Symbol = "x"
         /\ \A k \in 1..11 : st.Message # RuleResult[k].Message
         /\ Ran(w, "status")
         /\ GetStatus(r).err = NilError
         /\ GetStatus(r).status = st

C11_Witness ==
  \E w \in Workers :
    /\ InspectionFailed(w)
    /\ results[w].Status.Message = "Error: error: index file corrupt"
    /\ "nothing to commit, working tree clean" \in projects[w].Repository.output
    /\ ~projects[w].Repository.upstreamOk

\* C12: the lag list of a result holds, in the order git branch printed them,
\* exactly the branches that have an upstream and a behind-count other than
\* zero, each with its "behind by" message, and it is the same list whatever
\* the primary classification is (clean, unsynced, no upstream, error).
Lagging(b) ==
  /\ b.name # ""
  /\ b.trackingOk
  /\ b.behindOk
  /\ b.behindCount \notin {"0", ""}

LagMessage(b) ==
  IF b.aheadOk /\ b.aheadCount # "0"
    THEN "behind by " \o b.behindCount \o ", ahead by " \o b.aheadCount \o " commit(s)"
    ELSE "behind by " \o b.behindCount \o " commit(s)"

ExpectedLag(r) ==
  IF ~r.branchesOk THEN << >>
  ELSE LET lagging == SelectSeq(r.branches, Lagging)
       IN [k \in 1..Len(lagging) |-> BranchTracking(lagging[k].name, LagMessage(lagging[k]))]

Inspected(w) == statusPc[w] = "done" /\ ~Broken(w)

C12_LagListAttached ==
  \A w \in Workers :
    Inspected(w) =>
      LET r == projects[w].Repository
          st == results[w].Status
      IN /\ st.BehindBranches = ExpectedLag(r)
         /\ st.Type \in {StatusSync, StatusUnsync, StatusNoUpstream, StatusError}
         /\ (r.branchesOk /\ r.branches = << Branch("feature-x", TRUE, TRUE, "3", TRUE, "0") >>)
              => st.BehindBranches = << BranchTracking("feature-x", "behind by 3 commit(s)") >>

C12_Witness ==
  \E w \in Workers :
    /\ Inspected(w)
    /\ results[w].Status.Type = StatusSync
    /\ results[w].Status.Message = "Clean"
    /\ results[w].Status.BehindBranches =
         << BranchTracking("feature-x", "behind by 3 commit(s)") >>
    /\ Len(projects[w].Repository.branches) = 2

\* C12, second case: a repository without upstream carries a lag list too
C12_WitnessNoUpstream ==
  \E w \in Workers :
    /\ Inspected(w)
    /\ results[w].Status.Type = StatusNoUpstream
    /\ Len(results[w].Status.BehindBranches) = 2

\* C13: a branch whose upstream probe or behind-count probe fails contributes
\* no entry and leaves the entries of the other branches as they are; when the
\* branches cannot be listed the list is empty; in both cases the primary
\* classification is the one the repository has without any branch probe.
Probed(b) == b.name # "" /\ b.trackingOk /\ b.behindOk

C13_ProbeFailuresSkipped ==
  \A w \in Workers :
    Inspected(w) =>
      LET r == projects[w].Repository
          st == results[w].Status
          bare == GetStatus(WithBranches(r, TRUE, << >>)).status
      IN /\ st.Type = bare.Type
         /\ st.Message = bare.Message
         /\ st.Symbol = bare.Symbol
         /\ GetStatus(r).err = NilError
         /\ ~r.branchesOk => st.BehindBranches = << >>
         /\ r.branchesOk =>
              st.BehindBranches =
                GetStatus(WithBranches(r, TRUE, SelectSeq(r.branches, Probed))).status.BehindBranches

C13_Witness ==
  \E w \in Workers :
    /\ Inspected(w)
    /\ projects[w].Repository.branchesOk
    /\ Len(projects[w].Repository.branches) = 2
    /\ projects[w].Repository.branches[1].name = "gone"
    /\ Len(results[w].Status.BehindBranches) = 1
    /\ results[w].Status.BehindBranches[1].Branch = "dev"
    /\ results[w].Status.Type = StatusUnsync

\* C13, second case: the listing fails on a repository that has branches
C13_WitnessListingFails ==
  \E w \in Workers :
    /\ Inspected(w)
    /\ ~projects[w].Repository.branchesOk
    /\ Len(projects[w].Repository.branches) = 2
    /\ results[w].Status.Type = StatusSync

\* C14: when the batch has returned, every descriptor has exactly one result
\* entry, written once, and the status of that entry carries a non-empty
\* message, broken links and failed inspections included.
C14_EveryEntryExplained ==
  Returned =>
    /\ Len(results) = N
    /\ \A i \in 1..N :
         /\ writes[i] = << i >>
         /\ results[i].Status # NilStatus
         /\ results[i].Status.Message # ""

\* ------------------------------------------------------ discovery claims
Scanned == pc # "scan"
\* the file a path resolves to
Phys(path) == Stat(fsys, path).path
Inside(path, root) == path = root \/ HasPrefix(path, root \o << "/" >>)
\* the symbolic links that are entries of the scan root
RootLinks == { f \in DOMAIN fsys : Parent(f) = ScanRoot /\ fsys[f].kind = "link" }
\* the categories that scan the scan root
RootScans ==
  { k \in 1..Len(categories) :
      categories[k].Projects = << >> /\ ExpandPath(categories[k].Root) = ScanRoot }
\* the categories with an explicit list
Explicit(k) == categories[k].Projects # << >>

\* C15: discovery lists no directory that lies at or inside a repository root
\* it has returned, reached directly or through a link, and returns no
\* repository that lies inside another repository it has returned.
C15_NoListingInsideRepository ==
  Scanned =>
    \A i \in 1..N :
      ~Broken(i) =>
        LET root == Phys(projects[i].Path)
        IN /\ \A k \in 1..Len(listed) : ~Inside(Phys(listed[k]), root)
           /\ \A j \in 1..N :
                (~Broken(j) /\ Phys(projects[j].Path) # root)
                  => ~Inside(Phys(projects[j].Path), root)

\* C16: each link of the scan root whose target does not exist, directly or at
\* the end of a chain of links, yields in every category scanning that root
\* that does not ignore it exactly one descriptor without repository handle,
\* flagged as a symlink with its target, and none in a category that ignores
\* it; the batch gives that descriptor the broken-link status.
C16_BrokenLinkReported ==
  Scanned =>
    \A l \in RootLinks :
      ~Stat(fsys, l).ok =>
        LET reporting == { k \in RootScans : ~IsIgnored(Base(l), categories[k].Ignore) }
            found == { i \in 1..N : projects[i].Path = l }
            target == IF IsAbs(fsys[l].target) THEN fsys[l].target
                      ELSE Join(ScanRoot, fsys[l].target)
        IN /\ Cardinality(found) = Cardinality(reporting)
           /\ \A i \in found :
                /\ projects[i].Name = Base(l)
                /\ projects[i].Repository = NilRepository
                /\ projects[i].IsSymlink
                /\ projects[i].SymlinkTarget = target
                /\ statusPc[i] = "done" => results[i].Status = BrokenLinkStatus

\* C17: for each link of the scan root that resolves, directly or through a
\* chain of links, to a directory that is no repository, every repository
\* among the entries of that directory that the category does not ignore is
\* returned, named by its path through the link; a link that resolves to a
\* file yields no descriptor.
C17_LinkedDirectoryScanned ==
  Scanned =>
    \A l \in RootLinks : \A k \in RootScans :
      LET st == Stat(fsys, l)
      IN /\ (st.ok /\ fsys[st.path].kind = "dir" /\ ~IsGitRepository(fsys, l)) =>
              \A r \in DOMAIN fsys :
                ( /\ Parent(r) = st.path
                  /\ fsys[r].kind = "dir"
                  /\ IsGitRepository(fsys, r)
                  /\ ~ShouldIgnore(Base(r))
                  /\ ~IsIgnored(Join(Base(l), Base(r)), categories[k].Ignore) )
                  => \E i \in 1..N :
                       /\ projects[i].Path = Join(l, Base(r))
                       /\ projects[i].Name = Join(Base(l), Base(r))
                       /\ projects[i].Category = categories[k].Name
                       /\ projects[i].Repository = fsys[r].git
         /\ (st.ok /\ fsys[st.path].kind = "file") =>
              \A i \in 1..N : ~Inside(projects[i].Path, l)

\* C18: the list discovery returns holds no two descriptors with the same path.
C18_NoDuplicatePaths ==
  Scanned =>
    \A i, j \in 1..N : i # j => projects[i].Path # projects[j].Path

\* C19: a category with a non-empty explicit list contributes only paths of
\* that list, and its root is never listed: the directories discovery lists
\* are those of the categories without explicit list; a category whose
\* explicit entries are all skipped contributes nothing.
RECURSIVE ListedBy(_)
ListedBy(k) ==
  IF k = 0 THEN << >>
  ELSE ListedBy(k - 1)
         \o (IF Explicit(k) THEN << >>
             ELSE ScanCategory(fsys, categories[k], NoneScanned).listed)

ExplicitPaths(k) ==
  { ExpandPath(categories[k].Projects[m]) : m \in 1..Len(categories[k].Projects) }

C19_ExplicitListWins ==
  Scanned =>
    /\ listed = ListedBy(Len(categories))
    /\ (\A k \in 1..Len(categories) : Explicit(k)) => listed = << >>
    /\ \A i \in 1..N : \A k \in 1..Len(categories) :
         (Explicit(k) /\ projects[i].Category = categories[k].Name)
           => projects[i].Path \in ExplicitPaths(k)
    /\ \A k \in 1..Len(categories) :
         ( /\ Explicit(k)
           /\ \A f \in ExplicitPaths(k) :
                ~IsGitRepository(fsys, f) \/ IsIgnored(Base(f), categories[k].Ignore) )
           => \A i \in 1..N : projects[i].Category # categories[k].Name

C19_Witness ==
  /\ Scanned
  /\ Len(categories) = 1
  /\ categories[1].Name = "none"
  /\ categories[1].Root = ScanRoot
  /\ IsGitRepository(fsys, << "/", "w", "/", "b", "/", "r" >>)
  /\ IsGitRepository(fsys, << "/", "w", "/", "l", "1" >>)
  /\ projects = << >>
  /\ listed = << >>

\* C20: the descriptors of an explicit category are, in configured order, those
\* of its paths that are repository roots and whose basename no ignore pattern
\* of the category matches, each named by its basename; the other paths are
\* skipped and the paths after them are still processed.
Listable(k, path) ==
  /\ IsGitRepository(fsys, ExpandPath(path))
  /\ ~IsIgnored(Base(ExpandPath(path)), categories[k].Ignore)

RECURSIVE ExpectedExplicit(_, _)
ExpectedExplicit(k, m) ==
  IF m = 0 THEN << >>
  ELSE LET path == categories[k].Projects[m]
       IN ExpectedExplicit(k, m - 1)
            \o (IF Listable(k, path)
                  THEN << [ Name |-> Base(ExpandPath(path)), Path |-> ExpandPath(path),
                            Category |-> categories[k].Name ] >>
                  ELSE << >>)

RECURSIVE ExpectedOf(_, _)
ExpectedOf(name, k) ==
  IF k = 0 THEN << >>
  ELSE ExpectedOf(name, k - 1)
         \o (IF categories[k].Name = name
               THEN ExpectedExplicit(k, Len(categories[k].Projects)) ELSE << >>)

\* the descriptors of the categories called name, in order
RECURSIVE ReturnedOf(_, _)
ReturnedOf(name, i) ==
  IF i = 0 THEN << >>
  ELSE ReturnedOf(name, i - 1)
         \o (IF projects[i].Category = name
               THEN << [ Name |-> projects[i].Name, Path |-> projects[i].Path,
                         Category |-> projects[i].Category ] >>
               ELSE << >>)

C20_ExplicitSkipsNonRepositories ==
  Scanned =>
    \A k \in 1..Len(categories) :
      Explicit(k) =>
        /\ ReturnedOf(categories[k].Name, N) = ExpectedOf(categories[k].Name, Len(categories))
        /\ \A i \in 1..N :
             projects[i].Category = categories[k].Name
               => /\ projects[i].Repository # NilRepository
                  /\ projects[i].Repository = fsys[Phys(projects[i].Path)].git
                  /\ ~projects[i].IsSymlink

C20_Witness ==
  /\ Scanned
  /\ Len(categories) = 1
  /\ categories[1].Name = "both"
  /\ ~IsGitRepository(fsys, << "/", "w", "/", "c" >>)
  /\ N = 2
  /\ projects[1].Name = << "a" >>
  /\ projects[2].Name = << "r" >>
  /\ projects[2].Path = << "/", "w", "/", "b", "/", "r" >>


\* ---------------------------------------------------------------- C21
\* path lies strictly below dir
Below(path, dir) ==
  IF dir = << "/" >> THEN path # dir ELSE HasPrefix(path, dir \o << "/" >>)

\* the directories whose listing failed, as the files they are
FailedDirs ==
  { Stat(fsys, failed[k]).path : k \in { j \in 1..Len(failed) : Stat(fsys, failed[j]).ok } }

\* the file system in which each of these directories is empty and can be
\* listed
Emptied ==
  [ p \in { q \in DOMAIN fsys : \A d \in FailedDirs : ~Below(q, d) } |->
      IF p \in FailedDirs THEN [fsys[p] EXCEPT !.readable = TRUE, !.search = TRUE]
      ELSE fsys[p] ]

\* the descriptor's path leads into a directory whose listing failed
LeadsInto(d) ==
  /\ Stat(fsys, d.Path).ok
  /\ \E f \in FailedDirs : Below(Stat(fsys, d.Path).path, f)

NotLeadingInto(ps) == SelectSeq(ps, LAMBDA d : ~LeadsInto(d))

\* C21 as stated: after a scan no descriptor lies in the subtree of a
\* directory that could not be listed, and the descriptors returned are
\* exactly those of the same scan with every such directory empty.
C21_UnreadableAsEmpty ==
  pc # "scan" =>
    /\ \A i \in 1..Len(projects) : ~LeadsInto(projects[i])
    /\ projects = ScanAll(Emptied, categories).projects

\* C21, amended: after a scan, apart from the descriptors whose path leads
\* into a directory that could not be listed (through a symlink or an explicit
\* project path), the descriptors returned are exactly those of the same scan
\* with every such directory empty; ScanAll has no other outcome (it returns
\* no error).
C21_UnreadableSkipped ==
  pc # "scan" =>
    NotLeadingInto(projects) = NotLeadingInto(ScanAll(Emptied, categories).projects)

\* a scan that could not list a directory holding a repository, found no
\* descriptor leading into it and returned descriptors from elsewhere
C21_Witness ==
  /\ pc # "scan"
  /\ \E f \in FailedDirs : \E q \in DOMAIN fsys :
        Below(q, f) /\ fsys[q].git # NilRepository
  /\ projects # << >>
  /\ \A i \in 1..Len(projects) : ~LeadsInto(projects[i])


\* ---------------------------------------------------------------- C22
\* the categories scanned from a root (no explicit list)
ScanMode == { k \in 1..Len(categories) :
                Len(categories[k].Projects) = 0 /\ categories[k].Root # << >> }

\* some element of the relative path is an always-ignored name
ThroughIgnored(relPath) ==
  \E j \in 1..Len(Split(relPath)) : Split(relPath)[j] \in CommonIgnored

\* path is the root of a scanned category, or lies below one without passing
\* through an always-ignored name
ReachedUnignored(path) ==
  \E k \in ScanMode :
    LET root == ExpandPath(categories[k].Root)
    IN \/ path = root
       \/ Below(path, root) /\ ~ThroughIgnored(Rel(root, path, path))

\* C22: after a scan, no descriptor of a scan-mode category is named by a path
\* with node_modules or .DS_Store among its elements, and no directory was
\* listed (or tried) below an entry of such a name, whatever the ignore
\* patterns and whatever the entry is.
C22_AlwaysIgnoredNames ==
  pc # "scan" =>
    /\ \A i \in 1..Len(projects) :
          (\E k \in ScanMode : categories[k].Name = projects[i].Category)
            => ~ThroughIgnored(projects[i].Name)
    /\ \A j \in 1..Len(listed) : ReachedUnignored(listed[j])
    /\ \A j \in 1..Len(failed) : ReachedUnignored(failed[j])

\* a scan listed a directory holding an entry of an always-ignored name that
\* is a repository or a link to one
C22_Witness ==
  /\ pc # "scan"
  /\ \E q \in DOMAIN fsys :
        /\ Base(q) \in CommonIgnored
        /\ IsGitRepository(fsys, q)
        /\ fsys[q].kind = "link"
        /\ \E j \in 1..Len(listed) : listed[j] = Parent(q)
        /\ \E k \in ScanMode : ExpandPath(categories[k].Root) = Parent(q)


\* ---------------------------------------------------------------- C23
\* the final segment of a path: what follows its last separator
FinalSegment(path) ==
  CHOOSE seg \in { SubSeq(path, i, Len(path)) : i \in 1..(Len(path) + 1) } :
    /\ \A j \in 1..Len(seg) : seg[j] # "/"
    /\ Len(seg) = Len(path) \/ path[Len(path) - Len(seg)] = "/"

\* the positions of the stars of a pattern
Stars(pattern) == { i \in 1..Len(pattern) : pattern[i] = "*" }

\* the number of characters the first i elements of the pattern take when
\* its stars take the lengths given by take
RECURSIVE Taken(_, _, _)
Taken(pattern, take, i) ==
  IF i = 0 THEN 0
  ELSE Taken(pattern, take, i - 1) + (IF pattern[i] = "*" THEN take[i] ELSE 1)

\* glob matching: the stars can be given lengths so that the pattern covers the
\* whole name, each literal on an equal character, each ? on one character
\* that is no separator, each star on characters that are no separators
Glob(pattern, name) ==
  \E take \in [Stars(pattern) -> 0..Len(name)] :
    /\ Taken(pattern, take, Len(pattern)) = Len(name)
    /\ \A i \in 1..Len(pattern) :
         LET from == Taken(pattern, take, i - 1) + 1
             to == Taken(pattern, take, i)
         IN IF pattern[i] = "*" THEN \A j \in from..to : name[j] # "/"
            ELSE IF pattern[i] = "?" THEN name[to] # "/"
            ELSE name[to] = pattern[i]

\* the three ways a pattern ignores a path
IgnoresAsDocumented(pattern, path) ==
  \/ pattern = path \/ pattern = FinalSegment(path)
  \/ /\ Len(pattern) >= 2
     /\ pattern[Len(pattern) - 1] = "/" /\ pattern[Len(pattern)] = "*"
     /\ LET prefix == SubSeq(pattern, 1, Len(pattern) - 2)
        IN \/ path = prefix
           \/ /\ Len(path) > Len(prefix)
              /\ SubSeq(path, 1, Len(prefix) + 1) = prefix \o << "/" >>
  \/ /\ Stars(pattern) # {}
     /\ Glob(pattern, path) \/ Glob(pattern, FinalSegment(path))

\* the result of the call made with this path and this one pattern
CalledWith(path, pattern) ==
  matcher.called /\ matcher.projectPath = path /\ matcher.ignored = << pattern >>

\* C23: isIgnored(path, patterns) is true exactly when some pattern equals the
\* path or its final segment, or ends in /* with the path equal to the prefix
\* or below it, or contains * and glob-matches the path or its final segment;
\* the documented pairs give the documented results and an empty list matches
\* nothing.
C23_IsIgnoredAsDocumented ==
  matcher.called =>
    /\ matcher.result =
         \E k \in 1..Len(matcher.ignored) :
           IgnoresAsDocumented(matcher.ignored[k], matcher.projectPath)
    /\ CalledWith(<< "_", "a", "r", "c", "h", "i", "v", "e", "s", "/", "f", "o", "o" >>,
                  << "_", "a", "r", "c", "h", "i", "v", "e", "s", "/", "*" >>)
         => matcher.result
    /\ CalledWith(<< "f", "o", "o", "-", "o", "l", "d" >>, << "*", "-", "o", "l", "d" >>)
         => matcher.result
    /\ CalledWith(<< "f", "o", "o" >>, << "f", "o", "o" >>) => matcher.result
    /\ CalledWith(<< "f", "o", "o", "b", "a", "r" >>, << "f", "o", "o" >>) => ~matcher.result
    /\ matcher.ignored = << >> => ~matcher.result

\* a call that a star pattern decided on the final segment of a path with
\* several elements
C23_Witness ==
  /\ matcher.called
  /\ matcher.result
  /\ Len(matcher.ignored) = 1
  /\ Stars(matcher.ignored[1]) # {}
  /\ FinalSegment(matcher.projectPath) # matcher.projectPath
  /\ ~Glob(matcher.ignored[1], matcher.projectPath)
  /\ Glob(matcher.ignored[1], FinalSegment(matcher.projectPath))


CleanWithLag(status) ==
  status.Type = StatusSync /\ Len(status.BehindBranches) > 0

\* the block shows the result: its project line, then one line per lagging
\* branch
ShownWithLag(block, result) ==
  \E k \in 1..Len(block) :
    /\ block[k].kind = "project" /\ block[k].Name = result.Name
    /\ k + Len(result.Status.BehindBranches) <= Len(block)
    /\ \A j \in 1..Len(result.Status.BehindBranches) :
         /\ block[k + j].kind = "branch"
         /\ block[k + j].Name = result.Status.BehindBranches[j].Branch
         /\ block[k + j].Text = result.Status.BehindBranches[j].Message

\* C25: a project that is clean but has a lagging branch needs attention
\* everywhere. In the report "All projects are clean" is not printed, its
\* category is not marked clean and the project is shown with its lag lines,
\* whatever hide_clean, hide_ignored and verbose are; in the TUI the hide-clean
\* filter keeps it and its category counts as having changes and is visible.
C25_CleanWithLagNeedsAttention ==
  /\ printed.done =>
       \A i \in 1..Len(results) :
         CleanWithLag(results[i].Status) =>
           /\ ~printed.banner
           /\ results[i].Category \in DOMAIN printed.blocks
           /\ printed.blocks[results[i].Category][1].kind = "category"
           /\ printed.blocks[results[i].Category][1].Text # "clean"
           /\ ShownWithLag(printed.blocks[results[i].Category], results[i])
  /\ tui # NoModel =>
       \A i \in 1..Len(tui.projects) :
         CleanWithLag(tui.projects[i].Status) =>
           LET category == tui.projects[i].Project.Category
           IN /\ CategoryHasChanges(tui, category)
              /\ \E k \in 1..Len(GetVisibleCategories(tui)) :
                    GetVisibleCategories(tui)[k] = category
              /\ CurrentCategory(tui) \in { "", category } =>
                    \E k \in 1..Len(GetFilteredProjects(tui)) :
                      GetFilteredProjects(tui)[k] = tui.projects[i]

\* a report with hide_clean on and verbose off in which every project is
\* clean and one of them has a lagging branch
C25_Witness ==
  /\ printed.done
  /\ display.HideClean /\ ~display.verbose
  /\ \A i \in 1..Len(results) : results[i].Status.Type = StatusSync
  /\ \E i, j \in 1..Len(results) :
        /\ CleanWithLag(results[i].Status)
        /\ ~CleanWithLag(results[j].Status)
        /\ results[i].Category = results[j].Category

\* a TUI hiding clean projects whose selected category holds a clean project
\* and one that is clean with a lagging branch
C25_WitnessTui ==
  /\ tui # NoModel
  /\ tui.hideClean
  /\ \E i, j \in 1..Len(tui.projects) :
        /\ CleanWithLag(tui.projects[i].Status)
        /\ tui.projects[j].Status.Type = StatusSync
        /\ ~CleanWithLag(tui.projects[j].Status)
        /\ tui.projects[i].Project.Category = CurrentCategory(tui)
        /\ tui.projects[j].Project.Category = CurrentCategory(tui)

\* the statements of run beside the update check
RunBesideNext == CheckForUpdatesAsync \/ RunReturnsEarly \/ RunReachesSelect \/ SelectUpdate

\* C26: the update check never blocks run and is never blocked itself: the
\* goroutine sends at most once into a channel that has room for it, closes the
\* channel only after its one send, and always has a next step until it has
\* ended, whether or not run receives; run always has a next step until it has
\* returned, receives at most once, and prints a notice only for a received
\* result that says an update is available.
C26_UpdateCheckNeverBlocks ==
  /\ updater.sends <= 1
  /\ Len(updater.ch) <= 1
  /\ updater.task \in {"check", "send", "close"} => ENABLED UpdateTaskNext
  /\ updater.closed => updater.sends = 1
  /\ updater.task = "done" => updater.closed
  /\ updater.run \in {"begin", "running", "select"} => ENABLED RunBesideNext
  /\ Len(updater.received) <= 1
  /\ updater.notices <= Len(updater.received)
  /\ updater.notices = 1 =>
       /\ updater.received[1] # NilResult
       /\ updater.received[1].Available
       /\ updater.sends = 1
  /\ (updater.run = "returned" /\ updater.received = << >>) => updater.notices = 0

\* run has returned without receiving, and the goroutine has ended all the
\* same, leaving a result that announces an update in the channel
C26_Witness ==
  /\ updater.run = "returned"
  /\ updater.received = << >>
  /\ updater.task = "done"
  /\ Len(updater.ch) = 1
  /\ PrintsNotice(updater.ch[1])

\* run has received the result while the goroutine had not yet closed the
\* channel, and has printed the notice
C26_WitnessNotice ==
  /\ updater.notices = 1
  /\ updater.task = "close"

\* C27: in a run filtered with --category the configuration file stays as it
\* was, the ignore lists of the categories stay as loaded, a project whose
\* ignore prompt was answered keeps its no-upstream status, and SaveConfig
\* returns its filtered-config error without writing.
C27_FilteredNeverSaved ==
  handler.cfg.IsFiltered =>
    /\ handler.file = handler.original
    /\ handler.cfg.Categories =
         FilterCategory(LoadFromFile(ConfigFile, handler.original), handler.category).cfg.Categories
    /\ \A k \in 1..Len(handler.answers) :
         handler.answers[k] = "ignore" => handler.results[k].Status.Type = StatusNoUpstream
    /\ \A writable \in BOOLEAN :
         SaveConfig(handler.cfg, handler.file, writable) =
           [ err |-> ErrFilteredConfig, file |-> handler.file ]

\* a filtered run in which the ignore prompt was answered with yes;
\* handleNoUpstream has returned
C27_Witness ==
  /\ handler.cfg.IsFiltered
  /\ handler.pc = "handled"
  /\ \E k \in 1..Len(handler.answers) : handler.answers[k] = "ignore"

\* every project of the selected category is in the list the TUI shows
ShowsAllProjects(m) ==
  \A i \in 1..Len(m.projects) :
    (CurrentCategory(m) = "" \/ m.projects[i].Project.Category = CurrentCategory(m))
      => \E k \in 1..Len(GetFilteredProjects(m)) : GetFilteredProjects(m)[k] = m.projects[i]

\* C28: the TUI starts with clean projects shown whatever display.hide_clean
\* says, the hide-clean flag changes only when the h key is handled, each h
\* key flips it, and while it is off every project of the selected category
\* is listed.
C28_TuiShowsAllUntilToggled ==
  /\ tui # NoModel => ~tui.hideClean
  /\ [](tui # NoModel /\ ~tui.hideClean => ShowsAllProjects(tui))
  /\ [][tui # NoModel /\ tui' # NoModel /\ tui'.hideClean # tui.hideClean
          => tui' = UpdateKeyH(tui)]_vars
  /\ [][TuiKeyH => tui'.hideClean = ~tui.hideClean]_vars

\* a category the TUI lists among its tabs
VisibleCategory(m, cat) == ~m.hideClean \/ CategoryHasChanges(m, cat)

\* the positions (from 0) of the visible categories after and before the
\* selected one
VisibleAfter(m) ==
  { j \in 0..(Len(m.categories) - 1) :
      j > m.selectedCategory /\ VisibleCategory(m, m.categories[j + 1]) }
VisibleBefore(m) ==
  { j \in 0..(Len(m.categories) - 1) :
      j < m.selectedCategory /\ VisibleCategory(m, m.categories[j + 1]) }

Switched(m, to) ==
  /\ to.selectedCategory # m.selectedCategory
  /\ to.selectedProject = 0
  /\ to.detailsScroll = 0

\* C29: in every state of the TUI, a right key with a visible category after
\* the selected one selects the nearest of them, a left key with a visible
\* category before the selected one selects the nearest of them, both reset
\* the selected project and the details scroll, and neither key ever moves
\* the selection to a category that hide-clean hides.
C29_ArrowsSwitchVisibleCategory ==
  tui # NoModel =>
    LET right == UpdateKeyRight(tui)
        left == UpdateKeyLeft(tui)
    IN /\ VisibleAfter(tui) # {} =>
            /\ Switched(tui, right)
            /\ \A j \in VisibleAfter(tui) : right.selectedCategory <= j
            /\ right.selectedCategory \in VisibleAfter(tui)
       /\ VisibleBefore(tui) # {} =>
            /\ Switched(tui, left)
            /\ \A j \in VisibleBefore(tui) : left.selectedCategory >= j
            /\ left.selectedCategory \in VisibleBefore(tui)
       /\ \A to \in {left, right} :
            to.selectedCategory # tui.selectedCategory =>
              /\ VisibleCategory(to, CurrentCategory(to))
              /\ Switched(tui, to)

\* the two batches are over: run is past wg.Wait() of the status batch, every
\* goroutine of the fetch pass (when there was one) and of the status batch
\* has run its body and ended, and both gates are empty
BatchesOver ==
  /\ pc \in {"report", "scanComplete"}
  /\ \A w \in Workers :
       /\ statusPc[w] = "done"
       /\ (shouldFetch /\ ~shouldUseTUI) => fetchPc[w] = "done"
  /\ Len(results) = N
  /\ sem = 0 /\ wg = 0
  /\ fetchSem = 0 /\ fetchWg = 0

\* C30: under fair scheduling every run, of any number of projects and any
\* fetch ceiling of at least 1, reaches the end of both batches with every
\* goroutine ended and both gates released, and run never passes a join
\* before every goroutine of that batch has ended.
C30_BatchTerminates ==
  /\ <>[]BatchesOver
  /\ [](pc \in {"report", "scanComplete"} => BatchesOver)

\* a run with a fetch pass over three projects, a broken link among them,
\* through a gate of one place, has ended
C30_Witness ==
  /\ BatchesOver
  /\ N = MaxProjects
  /\ shouldFetch /\ ~shouldUseTUI
  /\ fetchConcurrency = 1
  /\ \E i \in 1..N : projects[i].Repository = NilRepository

\* the symbolic links a path of the scan goes through below the root
RECURSIVE LinksOn(_, _)
LinksOn(fs, path) ==
  IF Len(path) <= Len(ScanRoot) THEN 0
  ELSE LET here == Lstat(fs, path)
       IN (IF here.ok /\ fs[here.path].kind = "link" THEN 1 ELSE 0)
            + LinksOn(fs, Parent(path))

\* Where the scan is: the position of the loop of every call on the stack,
\* outermost first
Position(w) == [ f \in 1..Len(w.stack) |-> w.stack[f].k ]

\* position a comes before position b: at the first call where they differ, a
\* is at an earlier entry, or b has already returned from that call
Before(a, b) ==
  \E f \in 1..Len(a) :
    /\ \A g \in 1..(f - 1) : g <= Len(b) /\ a[g] = b[g]
    /\ f > Len(b) \/ a[f] < b[f]

\* the real directories of a file system: no call stack is deeper than these
\* and the links one resolution may follow
RealDirs(fs) == Cardinality({ f \in DOMAIN fs : fs[f].kind = "dir" })

\* C31: scan-mode discovery of a finite tree ends, whatever links lead back
\* to a directory above them. Every directory being listed is reached through
\* at most MaxSymlinks links and the stack of calls is no deeper than those
\* links and the real directories allow; every loop is within its finite
\* listing; every step moves the scan to a later position of this finite
\* order, so there are only finitely many steps; and when it returns every
\* call has returned, with the list of the recursive definition where no
\* listing failed (a link that leads back up always ends in a listing that
\* fails).
C31_DiscoveryTerminates ==
  /\ [](/\ Len(walker.stack) <= MaxSymlinks + RealDirs(walker.fs)
        /\ \A f \in 1..Len(walker.stack) :
             /\ LinksOn(walker.fs, walker.stack[f].currentPath) <= MaxSymlinks
             /\ walker.stack[f].k \in 1..(Len(walker.stack[f].entries) + 1)
             /\ Len(walker.stack[f].entries) < Cardinality(DOMAIN walker.fs))
  /\ [][\/ walker.pc = "call" /\ walker'.pc = "loop"
        \/ walker.pc = "loop" /\ walker'.pc = "done"
        \/ /\ walker.pc = "loop" /\ walker'.pc = "loop"
           /\ Before(Position(walker), Position(walker'))]_vars
  /\ [](walker.pc = "done" =>
          /\ walker.stack = << >>
          /\ Len(walker.acc.listed) + Len(walker.acc.failed) >= 1
          /\ walker.acc.failed = << >> =>
               walker.acc = ScanRecursive(walker.fs, ExpandPath(CycleCategory.Root),
                                          CycleCategory.Name, CycleCategory.Ignore,
                                          NoneScanned))

\* the scan of a root that holds a link to itself, a directory with a link to
\* itself and two directories linked to each other has returned, having
\* listed a directory through MaxSymlinks links
C31_Witness ==
  /\ walker.pc = "done"
  /\ << "/", "w", "/", "l" >> \in DOMAIN walker.fs
  /\ << "/", "w", "/", "d" >> \in DOMAIN walker.fs
  /\ << "/", "w", "/", "m" >> \in DOMAIN walker.fs
  /\ \E k \in 1..Len(walker.acc.listed) :
       LinksOn(walker.fs, walker.acc.listed[k]) = MaxSymlinks
  /\ walker.acc.failed # << >>

\* the types GetStatus can give a status
InspectedTypes == { StatusSync, StatusUnsync, StatusError, StatusNoUpstream }

\* GetStatus on r returns a status of the closed set and no error, and the
\* goroutine of the status batch stores that status, not one of its own
ReturnsStatus(r) ==
  LET got == GetStatus(r)
      proj == Project("p", "/w/p", "a", r, FALSE, "")
  IN /\ got.err = NilError
     /\ got.status # NilStatus
     /\ got.status.Type \in InspectedTypes
     /\ CheckProject(proj).result.Status = got.status
     /\ ScanProject(proj).result.Status = got.status

\* C32: whatever the upstream probe, git status and the branch listing return,
\* GetStatus returns one status of the closed set and a nil error; so the
\* status batch never stores its own error status in place of the one
\* GetStatus returned, and handleNoUpstream never returns the error of a
\* status check made after SetUpstream succeeded: a run fails only on the
\* category that is not in the configuration.
C32_GetStatusNeverErrs ==
  /\ \A k \in 1..Len(handler.projects) :
       /\ ReturnsStatus(handler.projects[k].Repository)
       /\ handler.results[k].Status # NilStatus
       /\ handler.results[k].Status.Type \in InspectedTypes \cup { StatusIgnored }
  /\ handler.pc = "failed" => handler.err = "category not found"
  /\ handler.err # NilError => handler.pc = "failed" /\ handler.projects = << >>

\* handleNoUpstream has returned: every git command had failed on the first
\* project in the batch, and the status check made after SetUpstream succeeded on the
\* second found git status failing as well
C32_Witness ==
  /\ handler.pc = "handled"
  /\ Len(handler.projects) = 2
  /\ handler.projects[1].Repository = BrokenRepo
  /\ handler.results[1].Status.Message = "Error: fatal: not a git repository"
  /\ handler.projects[2].Repository = NoUpstreamRepo
  /\ handler.answers[2] = "set"
  /\ handler.results[2].Status.Type = StatusError

\* fetchProjects is called with a ceiling of 0
FetchThroughClosedGate == fetchConcurrency = 0 /\ shouldFetch /\ ~shouldUseTUI

\* C33: with a fetch ceiling of 0 and at least one project no goroutine of the
\* fetch pass gets through sem, the counter of the progress bar stays at 0 and
\* fetchProjects does not return: once the goroutines are started none of
\* them can take a step and wg.Wait() cannot return. With no project
\* fetchProjects returns at once: wg.Wait() can return as soon as the loop is
\* over, and nothing else can happen.
C33_ZeroCeilingNeverAdmits ==
  FetchThroughClosedGate =>
    /\ \A w \in Workers : fetchPc[w] \in {"idle", "waiting"}
    /\ fetchSem = 0
    /\ completed = 0
    /\ fetchWg = fetchNext - 1
    /\ N >= 1 =>
         /\ pc \in {"start", "fetchLoop"}
         /\ results = << >>
         /\ \A w \in Workers : ~ENABLED FetchAcquire(w) /\ ~ENABLED FetchBody(w)
         /\ ~ENABLED FetchJoin
         /\ fetchNext > N => ~ENABLED Next
    /\ N = 0 /\ pc = "fetchLoop" => ENABLED FetchJoin /\ ~ENABLED FetchSpawn

\* three goroutines wait at a gate of no place, and run waits for them
C33_Witness ==
  /\ FetchThroughClosedGate
  /\ N = MaxProjects
  /\ pc = "fetchLoop"
  /\ fetchNext > N
  /\ \A w \in Workers : fetchPc[w] = "waiting"
  /\ fetchWg = N

\* fetchProjects has returned from a list of no project
C33_WitnessEmpty ==
  /\ FetchThroughClosedGate
  /\ N = 0
  /\ pc \in {"report", "scanComplete"}

\* a command in flight has written an entry of the array m.projects has
\* now, and its fetchCompleteMsg has not reached Update:
\* nothing orders what the event loop does with the entry after that write
WrittenUnseen ==
  \E i \in 1..Len(program.fetches) :
    /\ program.fetches[i].gen = program.gen
    /\ program.fetches[i].phase = "wrote"

\* the event loop ranges over the entries of m.projects in this step
EventLoopReads ==
  \/ ProgramView /\ Renders(tui)
  \/ ProgramKeyF /\ UpdateReads(tui, "f")
  \/ \E key \in {"h", "up", "down", "left", "right"} :
       ProgramKey(key) /\ UpdateReads(tui, key)

\* C34: no entry of the project list is written while something else reads
\* or writes it: no two commands of the f key in flight have both written the
\* same entry of the same array, and the event loop (View, and Update on a
\* key) never ranges over the entries between the write of a command and the
\* arrival of its fetchCompleteMsg.
C34_NoConcurrentEntryAccess ==
  /\ [](\A i, j \in 1..Len(program.fetches) :
         (/\ i # j
          /\ program.fetches[i].gen = program.fetches[j].gen
          /\ program.fetches[i].projectIndex = program.fetches[j].projectIndex)
           => ~(program.fetches[i].phase = "wrote" /\ program.fetches[j].phase = "wrote"))
  /\ [][EventLoopReads => ~WrittenUnseen]_vars

\* C35: fetchingProject is -1 exactly when no command of the f key is in
\* flight (started, its fetchCompleteMsg not yet handled), and otherwise is
\* the index of a project with such a command.
C35_FetchingProjectTracksFlight ==
  /\ tui.fetchingProject = -1 <=> program.fetches = << >>
  /\ tui.fetchingProject # -1 =>
       \E i \in 1..Len(program.fetches) :
         program.fetches[i].projectIndex = tui.fetchingProject

\* C36: whenever the filtered list is not empty the selected project is one
\* of its indices.
C36_SelectedProjectInRange ==
  Len(GetFilteredProjects(tui)) > 0 =>
    tui.selectedProject \in 0..(Len(GetFilteredProjects(tui)) - 1)

\* C37: the selected category is an index of the category list, and with
\* hide-clean on and a category that has changes it is a category that has
\* changes.
C37_SelectedCategoryVisible ==
  /\ tui.selectedCategory \in 0..(Len(tui.categories) - 1)
  /\ (tui.hideClean /\ \E k \in 1..Len(tui.categories) :
                          CategoryHasChanges(tui, tui.categories[k]))
       => CategoryHasChanges(tui, CurrentCategory(tui))
====
